---------------------------- MODULE Spec2Model ----------------------------
(***************************************************************************)
(* mongoose-log-history: the change-detection engine (getTrackedChanges    *)
(* and its helpers) and the update simulator (extractUpdateFields) that    *)
(* the query hooks run before the diff.                                    *)
(*                                                                         *)
(* JavaScript values are tagged pairs <<tag, payload>>:                    *)
(*   <<"undef",0>>  <<"null",0>>  <<"bool",b>>  <<"num",n>>  <<"nan",0>>   *)
(*   <<"str",s>>    <<"date",ms>> <<"arr",seq>> <<"obj",[key |-> value]>>  *)
(* An object's own keys are the DOMAIN of its payload.                     *)
(***************************************************************************)
EXTENDS Integers, Sequences, FiniteSets, TLC

VARIABLES
    op,            \* position: which operation has produced the current state
    trackedFields, \* this.trackedFields: the tracked-field configuration
    originalDoc,   \* the snapshot before the change
    updatedDoc,    \* the snapshot after the change (built by the hook for an update)
    update,        \* the MongoDB update object of a query hook
    fields,        \* extractUpdateFields' result
    logs,          \* getTrackedChanges(originalDoc, updatedDoc, trackedFields)
    reverseLogs,   \* getTrackedChanges(updatedDoc, originalDoc, trackedFields)
    plugin,        \* the ChangeLogPlugin instance the hooks close over (self)
    collection,    \* the documents of the model the plugin is applied to
    previous,      \* the collection as it was when the last operation was issued
    request,       \* the last document operation issued on the model
    outcome,       \* what the hook of that operation left behind
    repeats,       \* how many times the last operation has been issued again
    setup          \* the plugin options given, whether setup threw, the hooks registered

pluginVars == <<plugin, collection, previous, request, outcome, repeats, setup>>

vars == <<op, trackedFields, originalDoc, updatedDoc, update, fields, logs, reverseLogs,
          plugin, collection, previous, request, outcome, repeats, setup>>

\* No plugin is applied: the functions are called directly.
NoPlugin ==
    /\ plugin = <<>>
    /\ collection = <<>>
    /\ previous = <<>>
    /\ request = <<>>
    /\ outcome = <<>>
    /\ repeats = 0
    /\ setup = <<>>

-----------------------------------------------------------------------------
(* Bounds of the explored inputs.                                          *)

MaxLen == 2

\* The most operator entries one explored update object carries.
MaxOps == 2

-----------------------------------------------------------------------------
(* JavaScript values.                                                      *)

Undef == <<"undef", 0>>
Null == <<"null", 0>>
NaN == <<"nan", 0>>
Bool(b) == <<"bool", b>>
Num(n) == <<"num", n>>
Str(s) == <<"str", s>>
Date(ms) == <<"date", ms>>
Arr(s) == <<"arr", s>>
Obj(f) == <<"obj", f>>
EmptyObj == Obj(<<>>)

Tag(v) == v[1]
Val(v) == v[2]

isArray(v) == Tag(v) = "arr"

typeOf(v) ==
    CASE Tag(v) = "undef" -> "undefined"
      [] Tag(v) \in {"null", "arr", "obj", "date"} -> "object"
      [] Tag(v) = "bool" -> "boolean"
      [] Tag(v) \in {"num", "nan"} -> "number"
      [] Tag(v) = "str" -> "string"

\* JavaScript truthiness: what `if (x)`, `x || y` and `!x` test.
Truthy(v) ==
    CASE Tag(v) \in {"undef", "null", "nan"} -> FALSE
      [] Tag(v) = "bool" -> Val(v)
      [] Tag(v) = "num" -> Val(v) # 0
      [] Tag(v) = "str" -> Val(v) # ""
      [] OTHER -> TRUE

\* a === b.  Arrays, objects and dates are compared by reference; the model
\* never holds two references to one of them in the places this is applied to
\* distinct arguments, so they are never identical there.
StrictEq(a, b) ==
    /\ Tag(a) = Tag(b)
    /\ Tag(a) \in {"undef", "null", "bool", "num", "str"}
    /\ a = b

\* Own property read obj[key] on a plain object (undefined when missing).
Prop(o, key) ==
    IF Tag(o) = "obj" /\ key \in DOMAIN Val(o) THEN Val(o)[key] ELSE Undef

ObjKeys(o) == IF Tag(o) = "obj" THEN DOMAIN Val(o) ELSE {}

\* { ...a, ...b } and Object.assign(a, b) on plain objects.
Spread(a, b) ==
    Obj([k \in ObjKeys(a) \cup ObjKeys(b) |->
            IF k \in ObjKeys(b) THEN Val(b)[k] ELSE Val(a)[k]])

\* obj[key] = value on a plain object.
PutKey(o, key, value) == Spread(o, Obj(key :> value))

-----------------------------------------------------------------------------
(* Strings.                                                                *)

Digits == <<"0", "1", "2", "3", "4", "5", "6", "7", "8", "9">>

IsDigit(c) == \E i \in 1..10 : Digits[i] = c

DigitVal(c) == (CHOOSE i \in 1..10 : Digits[i] = c) - 1

RECURSIVE NatStr(_)
NatStr(n) == IF n < 10 THEN Digits[n + 1] ELSE NatStr(n \div 10) \o Digits[(n % 10) + 1]

\* String(n) for an integer n.
NumStr(n) == IF n < 0 THEN "-" \o NatStr(-n) ELSE NatStr(n)

\* path.split('.')
RECURSIVE SplitFrom(_, _, _)
SplitFrom(s, i, start) ==
    IF i > Len(s) THEN <<SubSeq(s, start, Len(s))>>
    ELSE IF SubSeq(s, i, i) = "."
         THEN <<SubSeq(s, start, i - 1)>> \o SplitFrom(s, i + 1, i + 1)
         ELSE SplitFrom(s, i + 1, start)

Split(s) == SplitFrom(s, 1, 1)

startsWithDollar(s) == Len(s) >= 1 /\ SubSeq(s, 1, 1) = "$"

AllDigits(s) == Len(s) >= 1 /\ \A i \in 1..Len(s) : IsDigit(SubSeq(s, i, i))

RECURSIVE DigitsVal(_, _)
DigitsVal(s, acc) ==
    IF Len(s) = 0 THEN acc
    ELSE DigitsVal(SubSeq(s, 2, Len(s)), acc * 10 + DigitVal(SubSeq(s, 1, 1)))

\* Number(segment) for the segments the model uses: '' is 0, a digit string
\* is its value, any other string is NaN.
NumberOfStr(s) ==
    IF s = "" THEN Num(0)
    ELSE IF AllDigits(s) THEN Num(DigitsVal(s, 0))
    ELSE NaN

\* An integer-like property name ("0", "12"; not "01"): Object.keys lists these
\* first, in ascending order.
IsIndexKey(s) == AllDigits(s) /\ NumStr(DigitsVal(s, 0)) = s

-----------------------------------------------------------------------------
(* utils: type tests and equality.                                         *)

isDate(v) == Tag(v) = "date"

isObject(v) == Tag(v) = "obj"

Pad3(n) == IF n < 10 THEN "00" \o NatStr(n) ELSE IF n < 100 THEN "0" \o NatStr(n) ELSE NatStr(n)

\* Date.prototype.toISOString for an epoch in 0..999 ms.
toISOString(ms) == "1970-01-01T00:00:00." \o Pad3(ms) \o "Z"

IsoDigitPos == {1, 2, 3, 4, 6, 7, 9, 10, 12, 13, 15, 16, 18, 19, 21, 22, 23}

\* /^\d{4}-\d{2}-\d{2}T\d{2}:\d{2}:\d{2}.\d{3}Z$/ (the '.' is unescaped).
isIsoDateString(v) ==
    /\ typeOf(v) = "string"
    /\ Len(Val(v)) = 24
    /\ \A i \in IsoDigitPos : IsDigit(SubSeq(Val(v), i, i))
    /\ SubSeq(Val(v), 5, 5) = "-" /\ SubSeq(Val(v), 8, 8) = "-"
    /\ SubSeq(Val(v), 11, 11) = "T"
    /\ SubSeq(Val(v), 14, 14) = ":" /\ SubSeq(Val(v), 17, 17) = ":"
    /\ SubSeq(Val(v), 24, 24) = "Z"

existsFalsy(val) == Truthy(val)

exists(val) == val # Null /\ val # Undef /\ val # Str("")

RECURSIVE isEqual(_, _)
isEqual(a, b) ==
    IF StrictEq(a, b) THEN TRUE
    ELSE IF isDate(a) /\ isDate(b) THEN Val(a) = Val(b)
    ELSE IF isArray(a) /\ isArray(b) THEN
        /\ Len(Val(a)) = Len(Val(b))
        /\ \A i \in 1..Len(Val(a)) : isEqual(Val(a)[i], Val(b)[i])
    ELSE IF isObject(a) /\ isObject(b) THEN
        /\ Cardinality(ObjKeys(a)) = Cardinality(ObjKeys(b))
        /\ \A k \in ObjKeys(a) : k \in ObjKeys(b) /\ isEqual(Val(a)[k], Val(b)[k])
    ELSE FALSE

areValuesEqualCoercing(a, b) ==
    IF a = Null /\ b = Null THEN TRUE
    ELSE IF a = Undef /\ b = Undef THEN TRUE
    ELSE IF a = Null \/ b = Null \/ a = Undef \/ b = Undef THEN FALSE
    ELSE IF isDate(a) /\ isDate(b) THEN Val(a) = Val(b)
    ELSE IF isDate(a) /\ typeOf(b) = "string" THEN toISOString(Val(a)) = Val(b)
    ELSE IF typeOf(a) = "string" /\ isDate(b) THEN Val(a) = toISOString(Val(b))
    ELSE IF typeOf(a) = "number" /\ typeOf(b) = "string" THEN a # NaN /\ NumStr(Val(a)) = Val(b)
    ELSE IF typeOf(a) = "string" /\ typeOf(b) = "number" THEN b # NaN /\ NumStr(Val(b)) = Val(a)
    ELSE IF isArray(a) /\ isArray(b) THEN isEqual(a, b)
    ELSE IF isObject(a) /\ isObject(b) THEN isEqual(a, b)
    ELSE StrictEq(a, b)

areValuesEqual(a, b) ==
    IF a = Null /\ b = Null THEN TRUE
    ELSE IF a = Undef /\ b = Undef THEN TRUE
    ELSE IF a = Null \/ b = Null \/ a = Undef \/ b = Undef THEN FALSE
    ELSE IF isDate(a) /\ isDate(b) THEN Val(a) = Val(b)
    ELSE IF isDate(a) /\ typeOf(b) = "string" THEN toISOString(Val(a)) = Val(b)
    ELSE IF typeOf(a) = "string" /\ isDate(b) THEN Val(a) = toISOString(Val(b))
    ELSE IF typeOf(a) = "number" /\ typeOf(b) = "string" THEN FALSE
    ELSE IF typeOf(a) = "string" /\ typeOf(b) = "number" THEN FALSE
    ELSE IF typeOf(a) = "boolean" /\ typeOf(b) = "string" THEN FALSE
    ELSE IF typeOf(a) = "string" /\ typeOf(b) = "boolean" THEN FALSE
    ELSE IF isArray(a) /\ isArray(b) THEN isEqual(a, b)
    ELSE IF isObject(a) /\ isObject(b) THEN isEqual(a, b)
    ELSE StrictEq(a, b)

-----------------------------------------------------------------------------
(* utils: path access.                                                     *)

\* current[idx] on an array, for the result of Number(segment).
ArrayAt(a, idx) ==
    IF Tag(idx) = "num" /\ Val(idx) >= 0 /\ Val(idx) < Len(Val(a))
    THEN Val(a)[Val(idx) + 1] ELSE Undef

RECURSIVE walkSegments(_, _, _)
walkSegments(current, segments, i) ==
    IF i > Len(segments) THEN current
    ELSE IF current = Null THEN Undef
    ELSE IF isArray(current) THEN
        IF Tag(NumberOfStr(segments[i])) # "num" THEN Undef
        ELSE walkSegments(ArrayAt(current, NumberOfStr(segments[i])), segments, i + 1)
    ELSE IF typeOf(current) = "object" THEN
        walkSegments(Prop(current, segments[i]), segments, i + 1)
    ELSE Undef

getValueByPathWalkOnly(obj, path) ==
    IF ~Truthy(obj) THEN Undef
    ELSE walkSegments(obj, Split(path), 1)

getValueByPath(obj, path) ==
    IF ~Truthy(obj) THEN Undef
    ELSE IF Truthy(Prop(obj, path)) THEN Prop(obj, path)
    ELSE walkSegments(obj, Split(path), 1)

\* setByPath mutates obj; here it returns the object after the call.  An
\* intermediate that is missing, falsy or not an object is replaced by {}.
RECURSIVE setParts(_, _, _, _)
setParts(obj, parts, i, value) ==
    IF i = Len(parts) THEN PutKey(obj, parts[i], value)
    ELSE PutKey(obj, parts[i],
            setParts(IF ~Truthy(Prop(obj, parts[i])) \/ Tag(Prop(obj, parts[i])) # "obj"
                     THEN EmptyObj ELSE Prop(obj, parts[i]),
                     parts, i + 1, value))

setByPath(obj, path, value) == setParts(obj, Split(path), 1, value)

-----------------------------------------------------------------------------
(* utils: stringification.                                                 *)

\* A set of strings as a sequence, in one fixed order.
RECURSIVE SetToSeq(_)
SetToSeq(S) ==
    IF S = {} THEN <<>>
    ELSE LET x == CHOOSE y \in S : TRUE IN <<x>> \o SetToSeq(S \ {x})

RECURSIVE JoinStr(_, _)
JoinStr(parts, sep) ==
    IF Len(parts) = 0 THEN ""
    ELSE IF Len(parts) = 1 THEN parts[1]
    ELSE parts[1] \o sep \o JoinStr(Tail(parts), sep)

\* JSON.stringify(val).  Object members are written in the order SetToSeq
\* gives (JavaScript writes them in insertion order, which the payload of an
\* object does not record); members whose value is undefined are left out.
RECURSIVE jsonStringify(_)
jsonStringify(val) ==
    CASE Tag(val) \in {"undef", "null", "nan"} -> "null"
      [] Tag(val) = "bool" -> IF Val(val) THEN "true" ELSE "false"
      [] Tag(val) = "num" -> NumStr(Val(val))
      [] Tag(val) = "str" -> "\"" \o Val(val) \o "\""
      [] Tag(val) = "date" -> "\"" \o toISOString(Val(val)) \o "\""
      [] Tag(val) = "arr" ->
            "[" \o JoinStr([i \in 1..Len(Val(val)) |-> jsonStringify(Val(val)[i])], ",") \o "]"
      [] Tag(val) = "obj" ->
            LET ks == SetToSeq({k \in ObjKeys(val) : Val(val)[k] # Undef})
            IN "{" \o JoinStr([i \in 1..Len(ks) |->
                        "\"" \o ks[i] \o "\":" \o jsonStringify(Val(val)[ks[i]])], ",") \o "}"

\* String(val).
RECURSIVE StringOf(_)
StringOf(val) ==
    CASE Tag(val) = "undef" -> "undefined"
      [] Tag(val) = "null" -> "null"
      [] Tag(val) = "nan" -> "NaN"
      [] Tag(val) = "bool" -> IF Val(val) THEN "true" ELSE "false"
      [] Tag(val) = "num" -> NumStr(Val(val))
      [] Tag(val) = "str" -> Val(val)
      [] Tag(val) = "date" -> toISOString(Val(val))
      [] Tag(val) = "arr" ->
            JoinStr([i \in 1..Len(Val(val)) |->
                        IF Val(val)[i] \in {Undef, Null} THEN "" ELSE StringOf(Val(val)[i])], ",")
      [] Tag(val) = "obj" -> "[object Object]"

valueToStringNullAsText(val) == Str(StringOf(val))

\* null and undefined pass through; every other value becomes a string.
valueToString(val) ==
    IF val = Null \/ val = Undef THEN val
    ELSE IF isDate(val) THEN Str(toISOString(Val(val)))
    ELSE IF typeOf(val) = "string" /\ isIsoDateString(val) THEN val
    ELSE IF typeOf(val) = "object" THEN Str(jsonStringify(val))
    ELSE Str(StringOf(val))

\* A mask rule given as a function; the one explored writes '@' once per
\* character of a string.
MaskFn(name) == <<"fn", name>>

RECURSIVE RepeatAt(_)
RepeatAt(n) == IF n = 0 THEN "" ELSE "@" \o RepeatAt(n - 1)

applyMaskFn(mask, val) ==
    IF Tag(val) = "str" THEN Str(RepeatAt(Len(Val(val)))) ELSE Str("")

\* valueToString(val, mask): null and undefined pass through, a literal mask
\* stands for every other value, a function mask is applied to the value,
\* and without a mask the value is rendered as above.
stringify(val, mask) ==
    IF val = Null \/ val = Undef THEN val
    ELSE IF mask = Undef THEN valueToString(val)
    ELSE IF Tag(mask) = "fn" THEN applyMaskFn(mask, val)
    ELSE mask

-----------------------------------------------------------------------------
(* utils: array differencing.                                              *)

\* The own keys of a key map in Object.keys order: integer-like names first,
\* ascending, then the other names in the order they were first inserted.
RECURSIVE SortedIndexKeys(_)
SortedIndexKeys(S) ==
    IF S = {} THEN <<>>
    ELSE LET m == CHOOSE x \in S : \A y \in S : DigitsVal(x, 0) <= DigitsVal(y, 0)
         IN <<m>> \o SortedIndexKeys(S \ {m})

ObjectKeys(map) ==
    SortedIndexKeys({map.order[i] : i \in {j \in 1..Len(map.order) : IsIndexKey(map.order[j])}})
        \o SelectSeq(map.order, LAMBDA k : ~IsIndexKey(k))

\* map[key] on a key map.
MapAt(map, k) == IF k \in DOMAIN map.at THEN map.at[k] ELSE Undef

\* arrayToKeyMap: order is the insertion order of the keys, at the item kept
\* for each key (a later item with the same key replaces the earlier one).
RECURSIVE keyMapFrom(_, _, _, _)
keyMapFrom(arr, key, i, map) ==
    IF i > Len(arr) THEN map
    ELSE IF Truthy(arr[i]) /\ Truthy(Prop(arr[i], key)) THEN
        LET keyValue == StringOf(Prop(arr[i], key))
        IN keyMapFrom(arr, key, i + 1,
              [order |-> IF keyValue \in DOMAIN map.at THEN map.order
                         ELSE Append(map.order, keyValue),
               at |-> [k \in DOMAIN map.at \cup {keyValue} |->
                          IF k = keyValue THEN arr[i] ELSE map.at[k]]])
    ELSE keyMapFrom(arr, key, i + 1, map)

EmptyKeyMap == [order |-> <<>>, at |-> <<>>]

arrayToKeyMapKeepFalsyKeys(arr, key) ==
    IF ~isArray(arr) THEN EmptyKeyMap
    ELSE LET keyed == SelectSeq(Val(arr), LAMBDA it : Truthy(it))
         IN [order |-> [i \in 1..Len(keyed) |-> StringOf(Prop(keyed[i], key))],
             at |-> [k \in {StringOf(Prop(keyed[i], key)) : i \in 1..Len(keyed)} |->
                        keyed[CHOOSE i \in 1..Len(keyed) : StringOf(Prop(keyed[i], key)) = k]]]

arrayToKeyMap(arr, key) ==
    IF ~isArray(arr) THEN EmptyKeyMap
    ELSE keyMapFrom(Val(arr), key, 1, EmptyKeyMap)

\* [...new Set(seq)]: the distinct elements in order of first occurrence.
\* Set membership is SameValueZero, which on primitives is equality of the
\* tagged value (NaN is in a set that holds NaN).
RECURSIVE Distinct(_)
Distinct(seq) ==
    IF Len(seq) = 0 THEN <<>>
    ELSE LET front == Distinct(SubSeq(seq, 1, Len(seq) - 1))
             last == seq[Len(seq)]
         IN IF \E i \in 1..Len(front) : front[i] = last THEN front ELSE Append(front, last)

Has(seq, x) == \E i \in 1..Len(seq) : seq[i] = x

diffSimpleArrayKeepDuplicates(before, after) ==
    LET b == IF isArray(before) THEN Val(before) ELSE <<>>
        a == IF isArray(after) THEN Val(after) ELSE <<>>
    IN [added |-> SelectSeq(a, LAMBDA x : ~Has(b, x)),
        removed |-> SelectSeq(b, LAMBDA x : ~Has(a, x))]

diffSimpleArray(before, after) ==
    LET beforeSet == Distinct(IF isArray(before) THEN Val(before) ELSE <<>>)
        afterSet == Distinct(IF isArray(after) THEN Val(after) ELSE <<>>)
    IN [added |-> SelectSeq(afterSet, LAMBDA x : ~Has(beforeSet, x)),
        removed |-> SelectSeq(beforeSet, LAMBDA x : ~Has(afterSet, x))]

-----------------------------------------------------------------------------
(* change-tracking: context extraction.                                    *)

\* a || b
OrElse(a, b) == IF Truthy(a) THEN a ELSE b

\* a ?? b
Coalesce(a, b) == IF a = Null \/ a = Undef THEN b ELSE a

\* The doc bucket: each path read from the updated document, else from the
\* original one, and written at the same dotted path.
RECURSIVE docBucket(_, _, _, _, _)
docBucket(paths, i, originalDoc_, updatedDoc_, bucket) ==
    IF i > Len(paths) THEN bucket
    ELSE docBucket(paths, i + 1, originalDoc_, updatedDoc_,
            setByPath(bucket, Val(paths[i]),
                OrElse(getValueByPath(updatedDoc_, Val(paths[i])),
                       getValueByPath(originalDoc_, Val(paths[i])))))

RECURSIVE itemBucket(_, _, _, _)
itemBucket(paths, i, item, bucket) ==
    IF i > Len(paths) THEN bucket
    ELSE itemBucket(paths, i + 1, item,
            setByPath(bucket, Val(paths[i]), getValueByPath(item, Val(paths[i]))))

\* extractLogContext that starts from the empty context object whatever
\* contextFields is.
extractLogContextEmptyWithoutRule(contextFields, originalDoc_, updatedDoc_, beforeItem, afterItem) ==
    IF ~Truthy(contextFields) THEN EmptyObj
    ELSE IF isArray(contextFields) THEN
        Obj("doc" :> docBucket(Val(contextFields), 1, originalDoc_, updatedDoc_, EmptyObj))
    ELSE EmptyObj

\* contextFields is undefined, an array of paths, or {doc?: paths, item?: paths}.
extractLogContext(contextFields, originalDoc_, updatedDoc_, beforeItem, afterItem) ==
    IF ~Truthy(contextFields) THEN Undef
    ELSE IF isArray(contextFields) THEN
        Obj("doc" :> docBucket(Val(contextFields), 1, originalDoc_, updatedDoc_, EmptyObj))
    ELSE
        LET withDoc ==
                IF Truthy(Prop(contextFields, "doc")) /\ isArray(Prop(contextFields, "doc"))
                THEN Obj("doc" :> docBucket(Val(Prop(contextFields, "doc")), 1,
                                            originalDoc_, updatedDoc_, EmptyObj))
                ELSE EmptyObj
            item == OrElse(afterItem, beforeItem)
        IN IF Truthy(Prop(contextFields, "item")) /\ isArray(Prop(contextFields, "item"))
           THEN PutKey(withDoc, "item",
                    IF Truthy(item)
                    THEN itemBucket(Val(Prop(contextFields, "item")), 1, item, EmptyObj)
                    ELSE EmptyObj)
           ELSE withDoc

-----------------------------------------------------------------------------
(* change-tracking: the diff.                                              *)
(* A TrackedField is [value, arrayType, arrayKey, valueField,              *)
(* contextFields, trackedFields]; an option that is not given is "" (for   *)
(* the strings), Undef (contextFields) or <<>> (trackedFields).            *)
(* A FieldLog is [field_name, from_value, to_value, change_type, context]; *)
(* context = Undef stands for a record without the context key.            *)

\* const x = value; Body(x): the value is computed once and then named.
Bind(value, Body(_)) == CHOOSE result \in {Body(x) : x \in {value}} : TRUE

FieldLog(name, from, to, kind, context) ==
    [field_name |-> name, from_value |-> from, to_value |-> to,
     change_type |-> kind, context |-> context]

\* parentFieldName ?? field.value
FieldName(field, parentFieldName) ==
    IF parentFieldName = Null THEN field.value ELSE Val(parentFieldName)

processGenericFieldChangesNullFrom(field, beforeValue, afterValue, originalDoc_, updatedDoc_, parentFieldName, beforeItem, afterItem) ==
    LET context == extractLogContext(field.contextFields, originalDoc_, updatedDoc_,
                                     beforeItem, afterItem)
        kind == IF ~exists(beforeValue) THEN "add"
                ELSE IF ~exists(afterValue) THEN "remove" ELSE "edit"
    IN IF ~exists(beforeValue) /\ ~exists(afterValue) THEN <<>>
       ELSE IF kind = "edit" /\ areValuesEqual(beforeValue, afterValue) THEN <<>>
       ELSE <<FieldLog(FieldName(field, parentFieldName),
                       IF kind = "add" THEN Null ELSE stringify(beforeValue, field.mask),
                       stringify(afterValue, field.mask), kind, context)>>

\* processGenericFieldChanges passing the mask for the after value only.
processGenericFieldChangesUnmaskedFrom(field, beforeValue, afterValue, originalDoc_, updatedDoc_, parentFieldName, beforeItem, afterItem) ==
    LET context == extractLogContext(field.contextFields, originalDoc_, updatedDoc_,
                                     beforeItem, afterItem)
        kind == IF ~exists(beforeValue) THEN "add"
                ELSE IF ~exists(afterValue) THEN "remove" ELSE "edit"
    IN IF ~exists(beforeValue) /\ ~exists(afterValue) THEN <<>>
       ELSE IF kind = "edit" /\ areValuesEqual(beforeValue, afterValue) THEN <<>>
       ELSE <<FieldLog(FieldName(field, parentFieldName), valueToString(beforeValue),
                       stringify(afterValue, field.mask), kind, context)>>

processGenericFieldChanges(field, beforeValue, afterValue, originalDoc_, updatedDoc_, parentFieldName, beforeItem, afterItem) ==
    Bind(stringify(beforeValue, field.mask), LAMBDA beforeStr :
    Bind(stringify(afterValue, field.mask), LAMBDA afterStr :
    Bind(extractLogContext(field.contextFields, originalDoc_, updatedDoc_,
                           beforeItem, afterItem), LAMBDA context :
    LET fieldName == FieldName(field, parentFieldName)
        beforeExists == exists(beforeValue)
        afterExists == exists(afterValue)
    IN IF ~beforeExists /\ ~afterExists THEN <<>>
       ELSE IF ~beforeExists /\ afterExists THEN
            <<FieldLog(fieldName, beforeStr, afterStr, "add", context)>>
       ELSE IF beforeExists /\ ~afterExists THEN
            <<FieldLog(fieldName, beforeStr, afterStr, "remove", context)>>
       ELSE IF ~areValuesEqual(beforeValue, afterValue) THEN
            <<FieldLog(fieldName, beforeStr, afterStr, "edit", context)>>
       ELSE <<>>)))

\* v === null || v === undefined ? null : v
NullIfMissing(v) == IF v = Null \/ v = Undef THEN Null ELSE v

processSimpleArrayChanges(field, beforeValue, afterValue, originalDoc_, updatedDoc_, parentFieldName, beforeItem, afterItem) ==
    Bind(diffSimpleArray(IF isArray(beforeValue) THEN beforeValue ELSE Arr(<<>>),
                         IF isArray(afterValue) THEN afterValue ELSE Arr(<<>>)), LAMBDA d :
    Bind(extractLogContext(field.contextFields, originalDoc_, updatedDoc_,
                           beforeItem, afterItem), LAMBDA context :
    LET fieldName == FieldName(field, parentFieldName)
    IN [i \in 1..Len(d.added) |->
            FieldLog(fieldName, Null, NullIfMissing(stringify(d.added[i], field.mask)), "add", context)]
       \o
       [i \in 1..Len(d.removed) |->
            FieldLog(fieldName, NullIfMissing(stringify(d.removed[i], field.mask)), Null, "remove", context)]))

\* The merge of a parent (array element) context into a sub-field record.
mergeParentContext(subLog, parentContext) ==
    IF ~Truthy(parentContext) THEN subLog
    ELSE IF ~Truthy(subLog.context) THEN [subLog EXCEPT !.context = parentContext]
    ELSE [subLog EXCEPT !.context =
            Obj([key \in ObjKeys(parentContext) \cup ObjKeys(subLog.context) |->
                IF key \notin ObjKeys(subLog.context) THEN Val(parentContext)[key]
                ELSE IF /\ Truthy(Prop(parentContext, key))
                        /\ typeOf(Prop(parentContext, key)) = "object"
                        /\ typeOf(Val(subLog.context)[key]) = "object"
                     THEN Spread(Prop(parentContext, key), Val(subLog.context)[key])
                     ELSE Val(subLog.context)[key]])]

\* for (const subLog of subLogs): the merge applied to every sub-field record.
mergeParentContexts(subLogs, parentContext) ==
    [j \in 1..Len(subLogs) |-> mergeParentContext(subLogs[j], parentContext)]

RECURSIVE processCustomKeyArrayChanges(_, _, _, _, _, _)
RECURSIVE customKeyLoop(_, _, _, _, _, _, _, _)
RECURSIVE processSubFieldChanges(_, _, _, _, _, _, _)
RECURSIVE subFieldLoop(_, _, _, _, _, _, _, _)

\* One iteration of processSubFieldChanges' loop, for field.trackedFields[i],
\* followed by the rest of the loop.
subFieldLoop(field, i, beforeItem, afterItem, originalDoc_, updatedDoc_, parentFieldName, parentContext) ==
    IF i > Len(field.trackedFields) THEN <<>>
    ELSE
        LET subField == field.trackedFields[i]
            subPath == subField.value
            beforeVal == getValueByPath(beforeItem, subPath)
            afterVal == getValueByPath(afterItem, subPath)
            fieldName == Str(FieldName(field, parentFieldName) \o "." \o subPath)
            subLogs ==
                IF subField.arrayType = "simple" THEN
                    processSimpleArrayChanges(subField, beforeVal, afterVal, originalDoc_,
                                              updatedDoc_, fieldName, beforeItem, afterItem)
                ELSE IF subField.arrayType = "custom-key" /\ subField.arrayKey # "" THEN
                    processCustomKeyArrayChanges(subField, beforeVal, afterVal, originalDoc_,
                                                 updatedDoc_, fieldName)
                ELSE
                    processGenericFieldChanges(subField, beforeVal, afterVal, originalDoc_,
                                               updatedDoc_, fieldName, beforeItem, afterItem)
        IN mergeParentContexts(subLogs, parentContext)
           \o subFieldLoop(field, i + 1, beforeItem, afterItem, originalDoc_, updatedDoc_,
                           parentFieldName, parentContext)

\* processSubFieldChanges reading the children of the after item as the before
\* values and those of the before item as the after values.
processSubFieldChangesSwapped(field, beforeItem, afterItem, originalDoc_, updatedDoc_, parentFieldName, parentContext) ==
    subFieldLoop(field, 1, afterItem, beforeItem, originalDoc_, updatedDoc_, parentFieldName,
                 parentContext)

processSubFieldChanges(field, beforeItem, afterItem, originalDoc_, updatedDoc_, parentFieldName, parentContext) ==
    subFieldLoop(field, 1, beforeItem, afterItem, originalDoc_, updatedDoc_, parentFieldName,
                 parentContext)

\* One iteration of processCustomKeyArrayChanges' loop, for allKeys[i],
\* followed by the rest of the loop.
customKeyLoop(field, allKeys, i, beforeMap, afterMap, originalDoc_, updatedDoc_, fieldName) ==
    IF i > Len(allKeys) THEN <<>>
    ELSE
        Bind(MapAt(beforeMap, allKeys[i]), LAMBDA beforeItem :
        Bind(MapAt(afterMap, allKeys[i]), LAMBDA afterItem :
        Bind(extractLogContext(field.contextFields, originalDoc_, updatedDoc_,
                               beforeItem, afterItem), LAMBDA context :
        LET beforeExists == exists(beforeItem)
            afterExists == exists(afterItem)
            fvRaw == IF Truthy(beforeItem) /\ field.valueField # ""
                     THEN stringify(Prop(beforeItem, field.valueField), field.mask) ELSE Undef
            tvRaw == IF Truthy(afterItem) /\ field.valueField # ""
                     THEN stringify(Prop(afterItem, field.valueField), field.mask) ELSE Undef
            here ==
                IF ~beforeExists /\ ~afterExists THEN <<>>
                ELSE IF ~beforeExists /\ afterExists THEN
                    <<FieldLog(Val(fieldName), Null, NullIfMissing(tvRaw), "add", context)>>
                ELSE IF beforeExists /\ ~afterExists THEN
                    <<FieldLog(Val(fieldName), NullIfMissing(fvRaw), Null, "remove", context)>>
                ELSE processSubFieldChanges(field, beforeItem, afterItem, originalDoc_,
                                            updatedDoc_, fieldName, context)
        IN here \o customKeyLoop(field, allKeys, i + 1, beforeMap, afterMap, originalDoc_,
                                 updatedDoc_, fieldName))))

\* processCustomKeyArrayChanges that, when the field has no children, diffs
\* the elements present in both lists as if qty were its one child.
processCustomKeyArrayChangesQtyChild(field, beforeValue, afterValue, originalDoc_, updatedDoc_, parentFieldName) ==
    IF field.arrayKey = "" THEN <<>>
    ELSE
        LET beforeMap == arrayToKeyMap(IF isArray(beforeValue) THEN beforeValue ELSE Arr(<<>>),
                                       field.arrayKey)
            afterMap == arrayToKeyMap(IF isArray(afterValue) THEN afterValue ELSE Arr(<<>>),
                                      field.arrayKey)
            allKeys == Distinct(ObjectKeys(beforeMap) \o ObjectKeys(afterMap))
        IN customKeyLoop(IF field.trackedFields = <<>>
                         THEN [field EXCEPT !.trackedFields =
                                <<[field EXCEPT !.value = "qty", !.arrayType = "",
                                                !.arrayKey = "", !.valueField = "",
                                                !.contextFields = Undef]>>]
                         ELSE field,
                         allKeys, 1, beforeMap, afterMap, originalDoc_, updatedDoc_,
                         Str(FieldName(field, parentFieldName)))

processCustomKeyArrayChanges(field, beforeValue, afterValue, originalDoc_, updatedDoc_, parentFieldName) ==
    IF field.arrayKey = "" THEN <<>>
    ELSE
        LET beforeMap == arrayToKeyMap(IF isArray(beforeValue) THEN beforeValue ELSE Arr(<<>>),
                                       field.arrayKey)
            afterMap == arrayToKeyMap(IF isArray(afterValue) THEN afterValue ELSE Arr(<<>>),
                                      field.arrayKey)
            allKeys == Distinct(ObjectKeys(beforeMap) \o ObjectKeys(afterMap))
        IN customKeyLoop(field, allKeys, 1, beforeMap, afterMap, originalDoc_, updatedDoc_,
                         Str(FieldName(field, parentFieldName)))

RECURSIVE trackedFieldLoop(_, _, _, _)
trackedFieldLoop(originalDoc_, updatedDoc_, tracked, i) ==
    IF i > Len(tracked) THEN <<>>
    ELSE
        LET field == tracked[i]
            beforeValue == getValueByPath(originalDoc_, field.value)
            afterValue == getValueByPath(updatedDoc_, field.value)
            fieldLogs ==
                IF field.value = "" THEN <<>>
                ELSE IF field.arrayType = "simple" THEN
                    processSimpleArrayChanges(field, beforeValue, afterValue, originalDoc_,
                                              updatedDoc_, Null, Null, Null)
                ELSE IF field.arrayType = "custom-key" THEN
                    processCustomKeyArrayChanges(field, beforeValue, afterValue, originalDoc_,
                                                 updatedDoc_, Null)
                ELSE
                    processGenericFieldChanges(field, beforeValue, afterValue, originalDoc_,
                                               updatedDoc_, Null, Null, Null)
        IN fieldLogs \o trackedFieldLoop(originalDoc_, updatedDoc_, tracked, i + 1)

getTrackedChanges(originalDoc_, updatedDoc_, tracked) ==
    trackedFieldLoop(originalDoc_, updatedDoc_, tracked, 1)

-----------------------------------------------------------------------------
(* plugin: the update simulator.                                           *)

\* Number(v), for the values arithmetic is applied to.
ToNumber(v) ==
    CASE Tag(v) = "num" -> v
      [] Tag(v) = "null" -> Num(0)
      [] Tag(v) = "bool" -> IF Val(v) THEN Num(1) ELSE Num(0)
      [] Tag(v) = "str" -> NumberOfStr(Val(v))
      [] OTHER -> NaN

\* a + b
JsAdd(a, b) ==
    IF Tag(a) = "str" \/ Tag(b) = "str" THEN Str(StringOf(a) \o StringOf(b))
    ELSE IF ToNumber(a) = NaN \/ ToNumber(b) = NaN THEN NaN
    ELSE Num(Val(ToNumber(a)) + Val(ToNumber(b)))

\* a * b
JsMul(a, b) ==
    IF ToNumber(a) = NaN \/ ToNumber(b) = NaN THEN NaN
    ELSE Num(Val(ToNumber(a)) * Val(ToNumber(b)))

MathMin(a, b) ==
    IF ToNumber(a) = NaN \/ ToNumber(b) = NaN THEN NaN
    ELSE IF Val(ToNumber(a)) <= Val(ToNumber(b)) THEN ToNumber(a) ELSE ToNumber(b)

MathMax(a, b) ==
    IF ToNumber(a) = NaN \/ ToNumber(b) = NaN THEN NaN
    ELSE IF Val(ToNumber(a)) >= Val(ToNumber(b)) THEN ToNumber(a) ELSE ToNumber(b)

\* value && typeof value === 'object' && !Array.isArray(value) && '$each' in value
isEachOperation(value) ==
    Truthy(value) /\ Tag(value) = "obj" /\ "$each" \in ObjKeys(value)

\* The list an $addToSet or $push operand stands for.
operandList(value) ==
    IF isEachOperation(value) THEN Val(Prop(value, "$each")) ELSE <<value>>

RECURSIVE addToSetKeyed(_, _, _, _, _)
addToSetKeyed(toAdd, i, arrayKey, map, result) ==
    IF i > Len(toAdd) THEN result
    ELSE IF /\ Truthy(toAdd[i]) /\ typeOf(toAdd[i]) = "object" /\ ~isArray(toAdd[i])
            /\ ~Truthy(MapAt(map, StringOf(Prop(toAdd[i], arrayKey))))
         THEN addToSetKeyed(toAdd, i + 1, arrayKey,
                [order |-> Append(map.order, StringOf(Prop(toAdd[i], arrayKey))),
                 at |-> [k \in DOMAIN map.at \cup {StringOf(Prop(toAdd[i], arrayKey))} |->
                            IF k = StringOf(Prop(toAdd[i], arrayKey)) THEN toAdd[i]
                            ELSE map.at[k]]],
                Append(result, toAdd[i]))
         ELSE addToSetKeyed(toAdd, i + 1, arrayKey, map, result)

RECURSIVE addToSetPlain(_, _, _)
addToSetPlain(toAdd, i, result) ==
    IF i > Len(toAdd) THEN result
    ELSE IF \E j \in 1..Len(result) : isEqual(result[j], toAdd[i])
         THEN addToSetPlain(toAdd, i + 1, result)
         ELSE addToSetPlain(toAdd, i + 1, Append(result, toAdd[i]))

simulateAddToSet(originalArr, addArr, arrayKey) ==
    LET orig == IF isArray(originalArr) THEN Val(originalArr) ELSE <<>>
    IN IF arrayKey # ""
       THEN Arr(addToSetKeyed(addArr, 1, arrayKey, arrayToKeyMap(Arr(orig), arrayKey), orig))
       ELSE Arr(addToSetPlain(addArr, 1, orig))

simulatePull(originalArr, pullQuery) ==
    IF ~isArray(originalArr) THEN Arr(<<>>)
    ELSE IF typeOf(pullQuery) # "object" \/ isArray(pullQuery) \/ pullQuery = Null THEN
        Arr(SelectSeq(Val(originalArr), LAMBDA item : ~isEqual(item, pullQuery)))
    ELSE
        Arr(SelectSeq(Val(originalArr), LAMBDA item :
            \/ ~Truthy(item) \/ typeOf(item) # "object" \/ isArray(item)
            \/ \E key \in ObjKeys(pullQuery) :
                    ~isEqual(Prop(item, key), Prop(pullQuery, key))))

simulatePullAll(originalArr, pullAllArr) ==
    IF ~isArray(originalArr) THEN Arr(<<>>)
    ELSE LET valuesToRemove == IF isArray(pullAllArr) THEN Val(pullAllArr) ELSE <<pullAllArr>>
         IN Arr(SelectSeq(Val(originalArr), LAMBDA item :
                    ~\E j \in 1..Len(valuesToRemove) : isEqual(item, valuesToRemove[j])))

\* update.$op && typeof update.$op === 'object': the operator's operand map,
\* or {} when the update does not carry the operator.
Operator(update_, name) ==
    IF Truthy(Prop(update_, name)) /\ typeOf(Prop(update_, name)) = "object"
    THEN Prop(update_, name) ELSE EmptyObj

\* assignedFields copying the operand map of every operator of the update,
\* whatever the operator.
assignedFieldsOfEveryOperator(update_) ==
    LET direct == Obj([key \in {k \in ObjKeys(update_) : ~startsWithDollar(k)} |->
                        Val(update_)[key]])
        operands == {Val(update_)[k] : k \in {x \in ObjKeys(update_) : startsWithDollar(x)}}
    IN Obj([key \in ObjKeys(direct) \cup UNION {ObjKeys(o) : o \in operands} |->
            IF \E o \in operands : key \in ObjKeys(o)
            THEN Val(CHOOSE o \in operands : key \in ObjKeys(o))[key]
            ELSE Val(direct)[key]])

\* Steps 1-4: direct assignments, $set, $setOnInsert, $unset, for every key
\* they name.
assignedFields(update_) ==
    LET direct == Obj([key \in {k \in ObjKeys(update_) : ~startsWithDollar(k)} |->
                        Val(update_)[key]])
        afterSet == Spread(direct, Operator(update_, "$set"))
        afterSetOnInsert == Spread(afterSet, Operator(update_, "$setOnInsert"))
    IN Spread(afterSetOnInsert,
              Obj([key \in ObjKeys(Operator(update_, "$unset")) |-> Undef]))

workingValue(originalDoc_, working, fieldName) ==
    IF fieldName \in ObjKeys(working) THEN Val(working)[fieldName]
    ELSE getValueByPath(originalDoc_, fieldName)

\* The value an array or numeric operator starts from: the original
\* document's, whatever the working field map holds by then.
startValue(originalDoc_, working, fieldName) == getValueByPath(originalDoc_, fieldName)

\* The nine per-field operators, in the order of the loop body.
PerFieldOperators ==
    <<"$addToSet", "$push", "$pull", "$pullAll", "$pop", "$inc", "$mul", "$min", "$max">>

\* What a function leaves behind when it throws a TypeError instead of
\* returning a value.
TypeError == <<"throw", "TypeError">>

\* value.concat(items): arrays and strings have a concat method; calling it
\* on any other value throws.
concat(value, items) ==
    IF isArray(value) THEN Arr(Val(value) \o items)
    ELSE IF Tag(value) = "str" THEN Str(Val(value) \o StringOf(Arr(items)))
    ELSE TypeError

\* value.slice(0, -1) when dropLast, value.slice(1) otherwise: arrays and
\* strings have a slice method; calling it on any other value throws.
slice(value, dropLast) ==
    LET from == IF dropLast THEN 1 ELSE 2
        to == IF dropLast THEN Len(Val(value)) - 1 ELSE Len(Val(value))
    IN IF isArray(value) THEN Arr(SubSeq(Val(value), from, to))
       ELSE IF Tag(value) = "str" THEN Str(SubSeq(Val(value), from, to))
       ELSE TypeError

\* fields[fieldName] = value, unless computing value threw.
assign(working, fieldName, value) ==
    IF value = TypeError THEN TypeError ELSE PutKey(working, fieldName, value)

\* One operator of the loop body applied to one tracked field.
applyOperator(name, update_, originalDoc_, working, field) ==
    LET fieldName == field.value
        operand == Prop(Operator(update_, name), fieldName)
        start == startValue(originalDoc_, working, fieldName)
        startArr == Coalesce(start, Arr(<<>>))
    IN CASE name \in {"$addToSet", "$push", "$pull", "$pullAll"} /\ ~Truthy(operand) -> working
         [] name \in {"$pop", "$inc", "$mul", "$min", "$max"} /\ operand = Undef -> working
         [] name = "$addToSet" ->
                PutKey(working, fieldName,
                       simulateAddToSet(start, operandList(operand), field.arrayKey))
         [] name = "$push" ->
                assign(working, fieldName, concat(startArr, operandList(operand)))
         [] name = "$pull" -> PutKey(working, fieldName, simulatePull(start, operand))
         [] name = "$pullAll" -> PutKey(working, fieldName, simulatePullAll(start, operand))
         [] name = "$pop" ->
                assign(working, fieldName,
                    IF operand = Num(1) THEN slice(startArr, TRUE)
                    ELSE IF operand = Num(-1) THEN slice(startArr, FALSE)
                    ELSE startArr)
         [] name = "$inc" -> PutKey(working, fieldName, JsAdd(OrElse(start, Num(0)), operand))
         [] name = "$mul" -> PutKey(working, fieldName, JsMul(OrElse(start, Num(0)), operand))
         [] name = "$min" ->
                PutKey(working, fieldName,
                       IF start = Undef THEN operand ELSE MathMin(start, operand))
         [] name = "$max" ->
                PutKey(working, fieldName,
                       IF start = Undef THEN operand ELSE MathMax(start, operand))

RECURSIVE simulateLoop(_, _, _, _, _, _)
simulateLoop(update_, originalDoc_, tracked, i, j, working) ==
    IF i > Len(tracked) \/ working = TypeError THEN working
    ELSE IF j > Len(PerFieldOperators) THEN
        simulateLoop(update_, originalDoc_, tracked, i + 1, 1, working)
    ELSE simulateLoop(update_, originalDoc_, tracked, i, j + 1,
            applyOperator(PerFieldOperators[j], update_, originalDoc_, working, tracked[i]))

extractUpdateFields(update_, originalDoc_, tracked) ==
    IF ~Truthy(update_) THEN EmptyObj
    ELSE simulateLoop(update_, originalDoc_, tracked, 1, 1, assignedFields(update_))

\* The updated document the query hook diffs against.
overlay(originalDoc_, updateFields) ==
    IF updateFields = TypeError THEN Undef
    ELSE IF Truthy(originalDoc_) THEN Spread(originalDoc_, updateFields) ELSE updateFields

-----------------------------------------------------------------------------
(* The explored inputs.                                                    *)

RECURSIVE SeqsUpTo(_, _)
SeqsUpTo(S, n) ==
    IF n = 0 THEN {<<>>}
    ELSE LET shorter == SeqsUpTo(S, n - 1)
         IN shorter \cup {Append(q, x) : q \in {r \in shorter : Len(r) = n - 1}, x \in S}

TrackedField(path, arrayType, arrayKey, valueField, contextFields, children) ==
    [value |-> path, arrayType |-> arrayType, arrayKey |-> arrayKey, valueField |-> valueField,
     contextFields |-> contextFields, trackedFields |-> children, mask |-> Undef]

Generic(path) == TrackedField(path, "", "", "", Undef, <<>>)
Simple(path) == TrackedField(path, "simple", "", "", Undef, <<>>)
Masked(field, mask) == [field EXCEPT !.mask = mask]

\* Values of a generic field; Undef stands for a key that is not there.
ScalarValues ==
    {Undef, Null, Str(""), Str("a"), Str("1"), Num(0), Num(1), NaN, Bool(FALSE), Bool(TRUE),
     Date(5), Str(toISOString(5)), Arr(<<>>), Arr(<<Num(1)>>), Obj("k" :> Num(1)),
     Obj("k" :> Num(2))}

ListElements == {Str("a"), Str("1"), Num(1)}

SkuItems ==
    {Obj([sku |-> Str(k), qty |-> Num(q)]) : k \in {"A", "B"}, q \in {1, 3}}
        \cup {Obj([sku |-> Num(0), qty |-> Num(1)])}

\* An object with the keys whose value is given; Undef leaves the key out.
DocOf(f) == Obj([k \in {x \in DOMAIN f : f[x] # Undef} |-> f[k]])

ScalarDocs == {DocOf("status" :> v) : v \in ScalarValues} \cup {Obj("status" :> Undef)}

NestedDocs ==
    {DocOf("user" :> u) :
        u \in {Undef, Null, Str("x")} \cup {DocOf("name" :> v) : v \in {Undef, Null, Str("a"), Num(0)}}}

TagsDocs ==
    {DocOf("tags" :> t) :
        t \in {Undef, Str("a")} \cup {Arr(q) : q \in SeqsUpTo(ListElements, MaxLen)}}

ItemsDocs ==
    {DocOf("items" :> t) : t \in {Undef} \cup {Arr(q) : q \in SeqsUpTo(SkuItems, MaxLen)}}

TaggedItems ==
    {Obj([sku |-> Str("A"), tags |-> Arr(q)]) : q \in SeqsUpTo({Str("a"), Str("b")}, MaxLen)}

TaggedItemsDocs == {DocOf("items" :> Arr(q)) : q \in SeqsUpTo(TaggedItems, 1)}

MixedDocs ==
    {DocOf([status |-> s, count |-> c, tags |-> t]) :
        s \in {Undef, Null, Str(""), Str("a"), Num(0)},
        c \in {Undef, Num(1), NaN},
        t \in {Undef, Arr(<<Str("a")>>)}}

\* Documents with a field under a literal mask and a field under a function mask.
MaskedDocs ==
    {DocOf([name |-> n, secret |-> x]) :
        n \in {Undef, Null, Str(""), Str("a"), Str("b"), Num(1)},
        x \in {Undef, Str("a"), Str("ab")}}

ItemContext == Obj([doc |-> Arr(<<Str("status")>>), item |-> Arr(<<Str("sku")>>)])

\* The configurations explored, each with the documents it is run on.
Scenarios ==
    {[tracked |-> <<Generic("status")>>, docs |-> ScalarDocs \cup {Undef}],
     [tracked |-> <<Generic("user.name")>>, docs |-> NestedDocs],
     [tracked |-> <<Simple("tags")>>, docs |-> TagsDocs],
     [tracked |-> <<TrackedField("items", "custom-key", "sku", "", Undef, <<>>)>>,
      docs |-> ItemsDocs],
     [tracked |-> <<TrackedField("items", "custom-key", "sku", "qty", ItemContext,
                                 <<Generic("qty")>>)>>,
      docs |-> ItemsDocs],
     [tracked |-> <<TrackedField("items", "custom-key", "sku", "", Undef,
                                 <<Simple("tags")>>)>>,
      docs |-> TaggedItemsDocs],
     [tracked |-> <<Generic("status"), Generic("count"), Simple("tags")>>,
      docs |-> MixedDocs],
     [tracked |-> <<Masked(Generic("name"), Str("***")), Masked(Generic("secret"), MaskFn("at"))>>,
      docs |-> MaskedDocs],
     [tracked |-> <<TrackedField("items", "custom-key", "sku", "", Undef,
                                 <<Masked(Generic("qty"), Str("***"))>>)>>,
      docs |-> ItemsDocs]}

-----------------------------------------------------------------------------
(* The diff, run on two snapshots (saveLogHistory's call for an update).   *)

Init ==
    /\ op = "init"
    /\ \E sc \in Scenarios :
        /\ trackedFields = sc.tracked
        /\ originalDoc \in sc.docs
        /\ updatedDoc \in sc.docs
    /\ update = Undef
    /\ fields = EmptyObj
    /\ logs = <<>>
    /\ reverseLogs = <<>>
    /\ NoPlugin

\* getTrackedChanges(originalDoc, updatedDoc, trackedFields)
GetTrackedChanges ==
    /\ op = "init"
    /\ update = Undef
    /\ logs' = getTrackedChanges(originalDoc, updatedDoc, trackedFields)
    /\ op' = "diff"
    /\ UNCHANGED <<trackedFields, originalDoc, updatedDoc, update, fields, reverseLogs>>
    /\ UNCHANGED pluginVars

\* The same call with the two snapshots exchanged.
GetTrackedChangesReversed ==
    /\ op = "diff"
    /\ update = Undef
    /\ reverseLogs' = getTrackedChanges(updatedDoc, originalDoc, trackedFields)
    /\ op' = "reversed"
    /\ UNCHANGED <<trackedFields, originalDoc, updatedDoc, update, fields, logs>>
    /\ UNCHANGED pluginVars

Next == GetTrackedChanges \/ GetTrackedChangesReversed

Spec == Init /\ [][Next]_vars

-----------------------------------------------------------------------------
(* The query hook: simulate the update on the original document, overlay   *)
(* the simulated fields on it and diff the two (preUpdateHook followed by  *)
(* saveLogHistory's diff, for a plugin without soft delete and a query     *)
(* without upsert).                                                        *)

SimTracked == <<Generic("n"), Generic("user.name"), Simple("tags")>>

\* The original document arrives from findOne(filter).select(tracked paths):
\* it holds tracked top-level paths only, or is null when nothing matches.
SimDocs ==
    {DocOf([n |-> n, user |-> u, tags |-> t]) :
        n \in {Undef, Num(0), Num(4)},
        u \in {Undef, Obj("name" :> Str("x"))},
        t \in {Undef, Arr(<<Str("a")>>), Arr(<<Str("a"), Str("b")>>)}}
    \cup {Null}

Entry(name, field, value) == [op |-> name, field |-> field, value |-> value]

\* One entry of an update object: a direct assignment (op "") or one field
\* of one operator's operand map.  "other" is a field that is not tracked.
UpdateEntries ==
    {Entry("", "n", Num(5)), Entry("", "other", Num(1)),
     Entry("$set", "n", Num(5)), Entry("$set", "n", Num(0)),
     Entry("$set", "user.name", Str("z")), Entry("$set", "user.name", Str("")),
     Entry("$set", "tags", Arr(<<Str("c")>>)), Entry("$set", "other", Num(1)),
     Entry("$setOnInsert", "n", Num(7)),
     Entry("$unset", "n", Str("")), Entry("$unset", "other", Str("")),
     Entry("$addToSet", "tags", Str("a")),
     Entry("$addToSet", "tags", Obj("$each" :> Arr(<<Str("a"), Str("c")>>))),
     Entry("$addToSet", "other", Str("a")),
     Entry("$push", "tags", Str("a")),
     Entry("$push", "tags", Obj("$each" :> Arr(<<Str("c"), Str("c")>>))),
     Entry("$pull", "tags", Str("a")),
     Entry("$pullAll", "tags", Arr(<<Str("a"), Str("b")>>)),
     Entry("$pop", "tags", Num(1)), Entry("$pop", "tags", Num(-1)), Entry("$pop", "tags", Num(0)),
     Entry("$inc", "n", Num(2)), Entry("$inc", "other", Num(1)),
     Entry("$mul", "n", Num(3)),
     Entry("$min", "n", Num(1)),
     Entry("$max", "n", Num(9))}

RECURSIVE SubsetsUpTo(_, _)
SubsetsUpTo(S, n) ==
    IF n = 0 THEN {{}}
    ELSE LET smaller == SubsetsUpTo(S, n - 1)
         IN smaller \cup {T \cup {x} : T \in smaller, x \in S}

\* No two entries give one field of one operator two operands.
Consistent(es) == \A e1 \in es, e2 \in es : (e1.op = e2.op /\ e1.field = e2.field) => e1 = e2

\* The update object the entries make up.
UpdateOf(es) ==
    Obj([key \in {e.field : e \in {x \in es : x.op = ""}} \cup {e.op : e \in {x \in es : x.op # ""}} |->
        IF startsWithDollar(key)
        THEN Obj([f \in {e.field : e \in {x \in es : x.op = key}} |->
                    (CHOOSE e \in es : e.op = key /\ e.field = f).value])
        ELSE (CHOOSE e \in es : e.op = "" /\ e.field = key).value])

Updates == {UpdateOf(es) : es \in {x \in SubsetsUpTo(UpdateEntries, MaxOps) : Consistent(x)}}

InitSim ==
    /\ op = "init"
    /\ trackedFields = SimTracked
    /\ originalDoc \in SimDocs
    /\ update \in Updates
    /\ updatedDoc = Undef
    /\ fields = EmptyObj
    /\ logs = <<>>
    /\ reverseLogs = <<>>
    /\ NoPlugin

PreUpdateHook ==
    /\ op = "init"
    /\ update # Undef
    /\ fields' = extractUpdateFields(update, originalDoc, trackedFields)
    /\ updatedDoc' = overlay(originalDoc, fields')
    /\ logs' = IF Truthy(originalDoc) /\ fields' # TypeError
               THEN getTrackedChanges(originalDoc, updatedDoc', trackedFields)
               ELSE <<>>
    /\ op' = "hooked"
    /\ UNCHANGED <<trackedFields, originalDoc, update, reverseLogs>>
    /\ UNCHANGED pluginVars

NextSim == PreUpdateHook

SpecSim == InitSim /\ [][NextSim]_vars

-----------------------------------------------------------------------------
(* Vocabulary of the properties.                                           *)

Range(seq) == {seq[i] : i \in 1..Len(seq)}

Count(seq, r) == Cardinality({i \in 1..Len(seq) : seq[i] = r})

\* Two sequences hold the same records the same number of times.
SameBag(s1, s2) == \A r \in Range(s1) \cup Range(s2) : Count(s1, r) = Count(s2, r)

\* A change record without its context.
Bare(r) ==
    [field_name |-> r.field_name, from_value |-> r.from_value, to_value |-> r.to_value,
     change_type |-> r.change_type]

BareSeq(seq) == [i \in 1..Len(seq) |-> Bare(seq[i])]

OfKind(seq, kind) == SelectSeq(seq, LAMBDA r : r.change_type = kind)

Named(seq, name) == SelectSeq(seq, LAMBDA r : r.field_name = name)

\* The value at a dotted path, read key by key from plain objects only.
RECURSIVE ReadKeys(_, _, _)
ReadKeys(v, keys, i) ==
    IF i > Len(keys) THEN v
    ELSE IF Tag(v) = "obj" /\ keys[i] \in DOMAIN Val(v) THEN ReadKeys(Val(v)[keys[i]], keys, i + 1)
    ELSE Undef

ValueAt(doc, path) == ReadKeys(doc, Split(path), 1)

\* exists, as the specification words it.
Present(v) == v \notin {Null, Undef, Str("")}

Elements(v) == IF isArray(v) THEN Range(Val(v)) ELSE {}

\* The keys of a keyed list: the truthy key values of its elements, as strings.
KeysOf(v, key) ==
    {StringOf(Prop(it, key)) : it \in {x \in Elements(v) : Truthy(Prop(x, key))}}

UniqueKeys(v, key) ==
    \A i, j \in 1..Len(Val(v)) :
        (Truthy(Prop(Val(v)[i], key)) /\ i # j)
            => StringOf(Prop(Val(v)[i], key)) # StringOf(Prop(Val(v)[j], key))

ElementWithKey(v, key, k) ==
    CHOOSE it \in Elements(v) : Truthy(Prop(it, key)) /\ StringOf(Prop(it, key)) = k

Diffed == op \in {"diff", "reversed"}

TopLevel(kind) == {i \in 1..Len(trackedFields) : trackedFields[i].arrayType = kind}

-----------------------------------------------------------------------------
(* Properties of the diff.                                                 *)

\* C1: diffing a document against itself yields no change record, for every
\* document and every configuration.
C1_SelfDiffIsEmpty == (Diffed /\ originalDoc = updatedDoc) => logs = <<>>

\* C2 for one generic field with values b (before) and a (after) and the
\* records recs emitted under its name.
GenericCases(b, a, recs) ==
    IF ~Present(b) /\ ~Present(a) THEN recs = <<>>
    ELSE IF ~Present(b) THEN Len(recs) = 1 /\ recs[1].change_type = "add"
    ELSE IF ~Present(a) THEN Len(recs) = 1 /\ recs[1].change_type = "remove"
    ELSE IF ~areValuesEqual(b, a) THEN Len(recs) = 1 /\ recs[1].change_type = "edit"
    ELSE recs = <<>>

\* C2: a generic field yields no record when absent on both sides, one add
\* when present only after, one remove when present only before, one edit
\* when present on both sides and not semantically equal, and otherwise no
\* record; absent means null, undefined or the empty string.
C2_GenericFieldCases ==
    Diffed =>
        \A i \in TopLevel("") :
            GenericCases(ValueAt(originalDoc, trackedFields[i].value),
                         ValueAt(updatedDoc, trackedFields[i].value),
                         Named(logs, trackedFields[i].value))

C2_Witness ==
    /\ op = "diff"
    /\ trackedFields = <<Generic("status")>>
    /\ Present(ValueAt(originalDoc, "status")) /\ Present(ValueAt(updatedDoc, "status"))
    /\ Len(logs) = 1 /\ logs[1].change_type = "edit"

\* C3 for one primitive-list field: one add (from null) per distinct element
\* only in after, one remove (to null) per distinct element only in before.
PrimitiveListCases(b, a, recs) ==
    /\ Len(recs) = Cardinality(Elements(a) \ Elements(b)) + Cardinality(Elements(b) \ Elements(a))
    /\ \A r \in Range(recs) :
        \/ r.change_type = "add" /\ r.from_value = Null
        \/ r.change_type = "remove" /\ r.to_value = Null
    /\ \A x \in Elements(a) \ Elements(b) :
        Cardinality({i \in 1..Len(recs) :
            recs[i].change_type = "add" /\ recs[i].to_value = valueToString(x)})
          = Cardinality({y \in Elements(a) \ Elements(b) : valueToString(y) = valueToString(x)})
    /\ \A x \in Elements(b) \ Elements(a) :
        Cardinality({i \in 1..Len(recs) :
            recs[i].change_type = "remove" /\ recs[i].from_value = valueToString(x)})
          = Cardinality({y \in Elements(b) \ Elements(a) : valueToString(y) = valueToString(x)})

\* C3: a primitive-list field yields exactly one add record (fromValue null)
\* per distinct element that is only in the after list and one remove record
\* (toValue null) per distinct element that is only in the before list,
\* whatever the order and the duplicates; a missing or non-array value counts
\* as the empty list.
C3_PrimitiveListIsSetDiff ==
    Diffed =>
        \A i \in TopLevel("simple") :
            PrimitiveListCases(ValueAt(originalDoc, trackedFields[i].value),
                               ValueAt(updatedDoc, trackedFields[i].value),
                               Named(logs, trackedFields[i].value))

C3_Witness ==
    /\ op = "diff"
    /\ trackedFields = <<Simple("tags")>>
    /\ isArray(ValueAt(updatedDoc, "tags"))
    /\ Len(Val(ValueAt(updatedDoc, "tags"))) > Cardinality(Elements(ValueAt(updatedDoc, "tags")))
    /\ OfKind(logs, "add") # <<>> /\ OfKind(logs, "remove") # <<>>

\* C4: a keyed-object-list field yields exactly one add record per key that
\* occurs only in the after list and exactly one remove record per key that
\* occurs only in the before list, wherever the elements stand in the lists.
C4_KeyedListDiffByKey ==
    Diffed =>
        \A i \in TopLevel("custom-key") :
            LET f == trackedFields[i]
                kb == KeysOf(ValueAt(originalDoc, f.value), f.arrayKey)
                ka == KeysOf(ValueAt(updatedDoc, f.value), f.arrayKey)
                recs == Named(logs, f.value)
            IN /\ Len(OfKind(recs, "add")) = Cardinality(ka \ kb)
               /\ Len(OfKind(recs, "remove")) = Cardinality(kb \ ka)
               /\ f.valueField # "" =>
                    /\ \A k \in ka \ kb : \E r \in Range(OfKind(recs, "add")) :
                        \E it \in Elements(ValueAt(updatedDoc, f.value)) :
                            /\ StringOf(Prop(it, f.arrayKey)) = k
                            /\ r.to_value = valueToString(Prop(it, f.valueField))
                    /\ \A k \in kb \ ka : \E r \in Range(OfKind(recs, "remove")) :
                        \E it \in Elements(ValueAt(originalDoc, f.value)) :
                            /\ StringOf(Prop(it, f.arrayKey)) = k
                            /\ r.from_value = valueToString(Prop(it, f.valueField))

\* A key common to both lists stands first in one and second in the other,
\* and one key is added and one removed.
C4_Witness ==
    /\ op = "diff"
    /\ trackedFields[1].arrayType = "custom-key" /\ trackedFields[1].valueField = "qty"
    /\ isArray(ValueAt(originalDoc, "items")) /\ isArray(ValueAt(updatedDoc, "items"))
    /\ Len(Val(ValueAt(originalDoc, "items"))) = 2 /\ Len(Val(ValueAt(updatedDoc, "items"))) = 2
    /\ Prop(Val(ValueAt(originalDoc, "items"))[1], "sku") = Prop(Val(ValueAt(updatedDoc, "items"))[2], "sku")
    /\ Len(OfKind(Named(logs, "items"), "add")) = 1
    /\ Len(OfKind(Named(logs, "items"), "remove")) = 1

\* The records of seq with "parent." put before their field name.
Qualified(seq, parent) ==
    [i \in 1..Len(seq) |-> [seq[i] EXCEPT !.field_name = parent \o "." \o @]]

RECURSIVE ConcatOver(_, _, _)
\* The records Op(k) of every key k of the set keys, in one sequence.
ConcatOver(keys, Op(_), acc) ==
    IF keys = {} THEN acc
    ELSE LET k == CHOOSE x \in keys : TRUE
         IN ConcatOver(keys \ {k}, Op, acc \o Op(k))

\* C5: for a keyed-object-list field with child specs and every key present
\* in both lists, the records emitted are exactly those of diffing each
\* child's value in the before element against its value in the after
\* element, named '<parent path>.<child path>'; items [{sku:'A',qty:1}] to
\* [{sku:'A',qty:3}] keyed by sku with child qty yields exactly one record,
\* 'items.qty', edit, '1' to '3'.
C5_KeyedListChildRecords ==
    Diffed =>
        \A i \in TopLevel("custom-key") :
            LET f == trackedFields[i]
                before == ValueAt(originalDoc, f.value)
                after == ValueAt(updatedDoc, f.value)
                common == KeysOf(before, f.arrayKey) \cap KeysOf(after, f.arrayKey)
                ChildRecords(k) ==
                    Qualified(BareSeq(getTrackedChanges(ElementWithKey(before, f.arrayKey, k),
                                                        ElementWithKey(after, f.arrayKey, k),
                                                        f.trackedFields)),
                              f.value)
            IN /\ (/\ f.trackedFields # <<>>
                   /\ isArray(before) /\ isArray(after)
                   /\ UniqueKeys(before, f.arrayKey) /\ UniqueKeys(after, f.arrayKey))
                    => SameBag(BareSeq(SelectSeq(logs, LAMBDA r : r.field_name # f.value)),
                               ConcatOver(common, ChildRecords, <<>>))
               /\ (/\ f.trackedFields = <<Generic("qty")>>
                   /\ originalDoc = Obj("items" :> Arr(<<Obj([sku |-> Str("A"), qty |-> Num(1)])>>))
                   /\ updatedDoc = Obj("items" :> Arr(<<Obj([sku |-> Str("A"), qty |-> Num(3)])>>)))
                    => BareSeq(logs) = <<[field_name |-> "items.qty", from_value |-> Str("1"),
                                          to_value |-> Str("3"), change_type |-> "edit"]>>

C5_Witness ==
    /\ op = "diff"
    /\ trackedFields[1].trackedFields = <<Generic("qty")>>
    /\ originalDoc = Obj("items" :> Arr(<<Obj([sku |-> Str("A"), qty |-> Num(1)])>>))
    /\ updatedDoc = Obj("items" :> Arr(<<Obj([sku |-> Str("A"), qty |-> Num(3)])>>))
    /\ Len(logs) = 1 /\ logs[1].field_name = "items.qty"

\* What the remove record matching an add record must read.
Mirror(r) ==
    [field_name |-> r.field_name, from_value |-> r.to_value, to_value |-> r.from_value,
     change_type |-> "remove"]

\* C6: the add records of diff(before, after) and the remove records of
\* diff(after, before) correspond one to one, with the same fieldName, each
\* add's toValue equal to the matching remove's fromValue and each add's
\* fromValue equal to the matching remove's toValue.
C6_DirectionReversal ==
    op = "reversed" =>
        LET adds == BareSeq(OfKind(logs, "add"))
            removes == BareSeq(OfKind(reverseLogs, "remove"))
        IN SameBag([i \in 1..Len(adds) |-> Mirror(adds[i])], removes)

C6_Witness ==
    /\ op = "reversed"
    /\ trackedFields = <<Generic("status")>>
    /\ ValueAt(originalDoc, "status") = Undef
    /\ Len(OfKind(logs, "add")) = 1
    /\ Len(OfKind(reverseLogs, "remove")) = 1

\* Tracked field i is a scalar that goes from absent to present.
AbsentToPresent(i) ==
    /\ trackedFields[i].arrayType = ""
    /\ ~Present(ValueAt(originalDoc, trackedFields[i].value))
    /\ Present(ValueAt(updatedDoc, trackedFields[i].value))

\* Tracked field j holds the same value on both sides.
SameValue(j) ==
    ValueAt(originalDoc, trackedFields[j].value) = ValueAt(updatedDoc, trackedFields[j].value)

\* Tracked field j is unchanged: a scalar absent on both sides or semantically
\* equal, a list with the same elements.
Unchanged(j) ==
    LET b == ValueAt(originalDoc, trackedFields[j].value)
        a == ValueAt(updatedDoc, trackedFields[j].value)
    IN IF trackedFields[j].arrayType = "" THEN
            \/ ~Present(b) /\ ~Present(a)
            \/ Present(b) /\ Present(a) /\ areValuesEqual(b, a)
       ELSE Elements(b) = Elements(a)

-----------------------------------------------------------------------------
(* Properties of the patch simulator.                                      *)

TrackedPaths == {trackedFields[i].value : i \in 1..Len(trackedFields)}

\* C8: simulating {$set: {f: b}} for a tracked path f against a snapshot,
\* overlaying the simulated fields on the snapshot and diffing the snapshot
\* against the overlay yields the same change records as diffing the snapshot
\* against the snapshot with f set to b.
C8_SimulationComposesWithDiff ==
    \A f \in TrackedPaths :
        (/\ op = "hooked"
         /\ Truthy(originalDoc)
         /\ ObjKeys(update) = {"$set"}
         /\ ObjKeys(Prop(update, "$set")) = {f})
            => logs = getTrackedChanges(originalDoc,
                                        setByPath(originalDoc, f, Prop(Prop(update, "$set"), f)),
                                        trackedFields)

\* The update carries operator name with an operand for path that the
\* simulator acts on.
Touches(name, path) ==
    LET operand == Prop(Operator(update, name), path)
    IN IF name \in {"$addToSet", "$push", "$pull", "$pullAll"} THEN Truthy(operand)
       ELSE operand # Undef

TouchedBy(path) == {j \in 1..Len(PerFieldOperators) : Touches(PerFieldOperators[j], path)}

Last(S) == CHOOSE j \in S : \A k \in S : k <= j

\* The entry steps 1-4 leave for a path: $unset over $setOnInsert over $set
\* over a direct assignment.
AssignedEntry(path) ==
    IF path \in ObjKeys(Operator(update, "$unset")) THEN <<TRUE, Undef>>
    ELSE IF path \in ObjKeys(Operator(update, "$setOnInsert"))
    THEN <<TRUE, Prop(Operator(update, "$setOnInsert"), path)>>
    ELSE IF path \in ObjKeys(Operator(update, "$set"))
    THEN <<TRUE, Prop(Operator(update, "$set"), path)>>
    ELSE IF path \in ObjKeys(update) /\ ~startsWithDollar(path)
    THEN <<TRUE, Prop(update, path)>>
    ELSE <<FALSE, Undef>>

RECURSIVE Chained(_, _, _)
\* The working map when every operator from the j-th on starts from the value
\* the working map holds for the field.
Chained(field, j, working) ==
    IF j > Len(PerFieldOperators) THEN working
    ELSE Chained(field, j + 1,
            applyOperator(PerFieldOperators[j], update,
                          IF field.value \in ObjKeys(working)
                          THEN Obj(field.value :> Val(working)[field.value])
                          ELSE originalDoc,
                          working, field))

\* C9 (as stated): the operators apply in the fixed precedence order, and
\* when two operators of one patch affect the same tracked field the later
\* one computes its result from the value the earlier one left in the working
\* field map, not from the original document's value.
C9_LaterOperatorSeesWorkingMap ==
    op = "hooked" =>
        \A i \in 1..Len(trackedFields) :
            LET f == trackedFields[i]
            IN Split(f.value) = <<f.value>>
                => Prop(fields, f.value)
                     = Prop(Chained(f, 1, assignedFields(update)), f.value)

\* C9 (amended): the operators apply in the fixed precedence order, every
\* array or numeric operator computes its result from the original
\* document's value of the field and overwrites the field's entry in the
\* working map: a tracked field ends with the result of the last operator in
\* the order that touches it, computed from the original document, and a
\* field no array or numeric operator touches ends with its $unset,
\* $setOnInsert, $set or direct entry, in that order of preference.
C9_LaterOperatorStartsFromOriginal ==
    op = "hooked" =>
        \A i \in 1..Len(trackedFields) :
            LET f == trackedFields[i]
                js == TouchedBy(f.value)
            IN IF js # {}
               THEN /\ f.value \in ObjKeys(fields)
                    /\ Val(fields)[f.value]
                         = Prop(applyOperator(PerFieldOperators[Last(js)], update, originalDoc,
                                              EmptyObj, f), f.value)
               ELSE /\ (f.value \in ObjKeys(fields)) = AssignedEntry(f.value)[1]
                    /\ Prop(fields, f.value) = AssignedEntry(f.value)[2]

\* $set gives n the value 5 and $inc adds 2: the result is the original 4
\* plus 2.
C9_Witness ==
    /\ op = "hooked"
    /\ Prop(originalDoc, "n") = Num(4)
    /\ Prop(Prop(update, "$set"), "n") = Num(5)
    /\ Prop(Prop(update, "$inc"), "n") = Num(2)
    /\ Prop(fields, "n") = Num(6)

NamedByPatch ==
    {path \in ObjKeys(update) : ~startsWithDollar(path)}
        \cup ObjKeys(Operator(update, "$set"))
        \cup ObjKeys(Operator(update, "$setOnInsert"))
        \cup ObjKeys(Operator(update, "$unset"))
        \cup {path \in TrackedPaths : TouchedBy(path) # {}}

-----------------------------------------------------------------------------
(* Properties of masking.                                                  *)

\* The tracked fields under a literal mask, each with the name its records
\* carry: top-level fields and children of keyed lists.
LiteralMasked ==
    {<<trackedFields[i].value, trackedFields[i].mask>> :
        i \in {j \in 1..Len(trackedFields) : Tag(trackedFields[j].mask) = "str"}}
    \cup UNION {
        {<<trackedFields[i].value \o "." \o trackedFields[i].trackedFields[k].value,
           trackedFields[i].trackedFields[k].mask>> :
            k \in {j \in 1..Len(trackedFields[i].trackedFields) :
                    Tag(trackedFields[i].trackedFields[j].mask) = "str"}} :
        i \in 1..Len(trackedFields)}

-----------------------------------------------------------------------------
(* plugin: the entry builder and the writers of log entries.               *)
(* The plugin instance `self` is [modelName, modelKeyId, trackedFields,    *)
(* contextFields, softDelete, saveWholeDoc, maxBatchLog, batchSize,        *)
(* userField, compressDocs, maskedValues]; softDelete is Null or           *)
(* [field, value].                                                         *)

\* The paths under a mask rule with their rules: top-level fields and the
\* children of keyed lists, named parent.child.
extractMaskedValues(tracked) ==
    LET top == {i \in 1..Len(tracked) : tracked[i].mask # Undef}
        sub == {<<i, k>> \in (1..Len(tracked)) \X (1..MaxLen) :
                    /\ k <= Len(tracked[i].trackedFields)
                    /\ tracked[i].trackedFields[k].mask # Undef}
        SubPath(ik) == tracked[ik[1]].value \o "." \o tracked[ik[1]].trackedFields[ik[2]].value
    IN [path \in {tracked[i].value : i \in top} \cup {SubPath(ik) : ik \in sub} |->
            IF \E i \in top : tracked[i].value = path
            THEN tracked[CHOOSE i \in top : tracked[i].value = path].mask
            ELSE LET ik == CHOOSE x \in sub : SubPath(x) = path
                 IN tracked[ik[1]].trackedFields[ik[2]].mask]

\* The mask of a path applied to the from and to values of its records.
maskLogs(fieldLogs, masks) ==
    [i \in 1..Len(fieldLogs) |->
        IF fieldLogs[i].field_name \in DOMAIN masks
        THEN [fieldLogs[i] EXCEPT
                !.from_value = IF @ \in {Null, Undef} THEN @
                               ELSE stringify(@, masks[fieldLogs[i].field_name]),
                !.to_value = IF @ \in {Null, Undef} THEN @
                             ELSE stringify(@, masks[fieldLogs[i].field_name])]
        ELSE fieldLogs[i]]

RECURSIVE maskPaths(_, _, _)
maskPaths(obj, paths, masks) ==
    IF paths = {} THEN obj
    ELSE LET path == CHOOSE x \in paths : TRUE
             value == getValueByPath(obj, path)
         IN maskPaths(IF value \in {Null, Undef} THEN obj
                      ELSE setByPath(obj, path, stringify(value, masks[path])),
                      paths \ {path}, masks)

\* deepClone(obj, masks): a copy of the snapshot with the value at every
\* masked path replaced as stringify replaces it.
deepClone(obj, masks) ==
    IF obj = Null \/ typeOf(obj) # "object" THEN obj
    ELSE maskPaths(obj, DOMAIN masks, masks)

\* The compressed form of a snapshot: an opaque buffer made from it.
compressObject(obj) == <<"gz", obj>>

\* buildLogEntry that assigns the two snapshots outside the saveWholeDoc
\* test: null when whole-document capture is disabled.
buildLogEntryNullSnapshots(given) == Bind(given, LAMBDA params :
    LET entry == [model |-> params.model_name,
                  model_id |-> params.model_id,
                  change_type |-> params.change_type,
                  logs |-> maskLogs(params.logs, params.maskedValues),
                  created_by |-> params.created_by,
                  is_deleted |-> FALSE,
                  original_doc |-> Null,
                  updated_doc |-> Null]
    IN IF Truthy(params.context) THEN entry @@ [context |-> params.context] ELSE entry)

\* buildLogEntry(params), the object-based call.  A key of params that is
\* not given is Undef; created_at, the time of construction, is left out.
buildLogEntry(given) == Bind(given, LAMBDA params :
    LET originalDoc_ == IF params.original_doc = Undef THEN Null ELSE params.original_doc
        updatedDoc_ == IF params.updated_doc = Undef THEN Null ELSE params.updated_doc
        contextData == IF params.context = Undef THEN Null ELSE params.context
        masks == params.maskedValues
        entry == [model |-> params.model_name,
                  model_id |-> params.model_id,
                  change_type |-> params.change_type,
                  logs |-> maskLogs(params.logs, masks),
                  created_by |-> params.created_by,
                  is_deleted |-> FALSE]
        withContext == IF Truthy(contextData) THEN entry @@ [context |-> contextData]
                       ELSE entry
        Snapshot(doc) ==
            IF ~Truthy(doc) THEN Null
            ELSE IF params.compressDocs THEN compressObject(deepClone(doc, masks))
            ELSE deepClone(doc, masks)
    IN IF params.saveWholeDoc
       THEN withContext @@ [original_doc |-> Snapshot(originalDoc_),
                            updated_doc |-> Snapshot(updatedDoc_)]
       ELSE withContext)

\* extractUser({doc, context, userField})
extractUser(doc, context, userField) ==
    LET userFromContext == getValueByPath(context, userField)
        userFromDoc == getValueByPath(doc, userField)
        fallbackFields == <<"created_by", "updated_by", "modified_by", "user_id", "userId">>
        found == {i \in 1..Len(fallbackFields) :
                    getValueByPath(doc, fallbackFields[i]) \notin {Undef, Null}}
    IN IF Truthy(context) /\ userField # "" /\ userFromContext \notin {Undef, Null}
       THEN userFromContext
       ELSE IF Truthy(doc) /\ userField # "" /\ userFromDoc \notin {Undef, Null}
       THEN userFromDoc
       ELSE IF Truthy(doc) /\ found # {}
       THEN getValueByPath(doc, fallbackFields[CHOOSE i \in found : \A j \in found : i <= j])
       ELSE Null

\* The parameters of saveLogHistory and of one element of saveLogHistoryBatch.
LogParams(modelId, originalData, updatedData, changeType, user) ==
    [modelId |-> modelId, originalData |-> originalData, updatedData |-> updatedData,
     changeType |-> changeType, user |-> user]

\* The entry saveLogHistory and saveLogHistoryBatch build for params, in a
\* sequence; the empty sequence when params is an update without a tracked
\* change.
logEntryFor(self, given) == Bind(given, LAMBDA params :
    Bind(IF params.changeType = "update"
         THEN getTrackedChanges(params.originalData, params.updatedData, self.trackedFields)
         ELSE <<>>, LAMBDA changes :
    LET context == IF params.changeType = "update" THEN Undef
                   ELSE extractLogContext(self.contextFields, params.originalData,
                                          params.updatedData, Null, Null)
    IN IF params.changeType = "update" /\ Len(changes) = 0 THEN <<>>
       ELSE <<buildLogEntry([model_id |-> params.modelId,
                             model_name |-> self.modelName,
                             change_type |-> params.changeType,
                             logs |-> changes,
                             created_by |-> params.user,
                             original_doc |-> params.originalData,
                             updated_doc |-> params.updatedData,
                             context |-> context,
                             saveWholeDoc |-> self.saveWholeDoc,
                             compressDocs |-> self.compressDocs,
                             maskedValues |-> self.maskedValues])>>))

\* What a writer or a hook leaves behind: the entries written, the number of
\* calls of logger.error and of logger.warn, and the number of calls of next.
Outcome(written, errors, warns, nexts) ==
    [written |-> written, errors |-> errors, warns |-> warns, nexts |-> nexts]

\* saveLogHistory with an empty catch block: a rejected LogHistory.create is
\* dropped without a call of logger.error.
saveLogHistorySilent(self, params, createFails) ==
    Bind(logEntryFor(self, params), LAMBDA logEntry :
        IF logEntry = <<>> \/ createFails THEN Outcome(<<>>, 0, 0, 0)
        ELSE Outcome(logEntry, 0, 0, 0))

\* saveLogHistory(params); createFails tells whether LogHistory.create
\* rejects.
saveLogHistory(self, params, createFails) ==
    Bind(logEntryFor(self, params), LAMBDA logEntry :
        IF logEntry = <<>> THEN Outcome(<<>>, 0, 0, 0)
        ELSE IF createFails THEN Outcome(<<>>, 1, 0, 0)
        ELSE Outcome(logEntry, 0, 0, 0))

RECURSIVE bulkOperationsOf(_, _, _)
bulkOperationsOf(self, logEntriesData, i) ==
    IF i > Len(logEntriesData) THEN <<>>
    ELSE logEntryFor(self, logEntriesData[i]) \o bulkOperationsOf(self, logEntriesData, i + 1)

\* saveLogHistoryBatch(logEntriesData); bulkWriteFails tells whether
\* LogHistory.bulkWrite rejects.
saveLogHistoryBatch(self, logEntriesData, bulkWriteFails) ==
    Bind(bulkOperationsOf(self, logEntriesData, 1), LAMBDA bulkOperations :
        IF Len(bulkOperations) = 0 THEN Outcome(<<>>, 0, 0, 0)
        ELSE IF bulkWriteFails THEN Outcome(<<>>, 1, 0, 0)
        ELSE Outcome(bulkOperations, 0, 0, 0))

-----------------------------------------------------------------------------
(* plugin: the hooks.  The model's collection is a sequence of documents;  *)
(* a filter is an object of top-level values every match must equal.       *)

matches(doc, filter) ==
    \A key \in ObjKeys(filter) : isEqual(Prop(doc, key), Val(filter)[key])

\* model.find(filter).lean()
find(collection_, filter) == SelectSeq(collection_, LAMBDA doc : matches(doc, filter))

\* [...new Set(self.trackedFields.map((f) => f.value.split('.')[0]))]
trackedPathsOf(self) ==
    {Split(self.trackedFields[i].value)[1] : i \in 1..Len(self.trackedFields)}

\* .select(trackedPaths.join(' ')): the chosen top-level paths and _id; every
\* field when no path is chosen.
select(doc, paths) ==
    IF paths = {} THEN doc
    ELSE Obj([key \in ObjKeys(doc) \cap (paths \cup {"_id"}) |-> Val(doc)[key]])

\* model.findOne(filter).select(trackedPaths.join(' ')).lean()
findOne(collection_, filter, paths) ==
    Bind(find(collection_, filter), LAMBDA found :
        IF found = <<>> THEN Null ELSE select(found[1], paths))

\* Whether the change from originalDoc_ to updatedData is a soft delete.
isSoftDeleteOf(self, originalDoc_, updatedData) ==
    /\ Truthy(self.softDelete)
    /\ ~StrictEq(getValueByPath(originalDoc_, Val(Prop(self.softDelete, "field"))),
                 Prop(self.softDelete, "value"))
    /\ StrictEq(getValueByPath(updatedData, Val(Prop(self.softDelete, "field"))),
                Prop(self.softDelete, "value"))

\* preUpdateHook, registered for updateOne, findOneAndUpdate, replaceOne,
\* findOneAndReplace and update.
preUpdateHook(self, collection_, filter, update_, options, createFails) ==
    Bind(findOne(collection_, filter, trackedPathsOf(self)), LAMBDA originalDoc_ :
    Bind(extractUpdateFields(update_, originalDoc_, self.trackedFields), LAMBDA updateFields :
    Bind(overlay(originalDoc_, updateFields), LAMBDA updatedData :
    LET context == Coalesce(Prop(options, "context"), EmptyObj)
        isSoftDelete ==
            /\ Truthy(originalDoc_)
            /\ isSoftDeleteOf(self, originalDoc_, Spread(originalDoc_, updateFields))
        modelId == OrElse(getValueByPath(updatedData, self.modelKeyId),
                          getValueByPath(filter, self.modelKeyId))
        user == extractUser(updatedData, context, self.userField)
        isCreate == ~Truthy(originalDoc_) /\ Truthy(Prop(options, "upsert"))
        changeType == IF isCreate THEN "create" ELSE IF isSoftDelete THEN "delete" ELSE "update"
    IN \* The create and the delete branch end in `return next()` inside the
       \* try block, and the finally block calls next again.  What
       \* extractUpdateFields throws is caught and given to logger.error.
       IF updateFields = TypeError THEN Outcome(<<>>, 1, 0, 1)
       ELSE IF isCreate \/ Truthy(originalDoc_) THEN
            [saveLogHistory(self, LogParams(modelId, IF isCreate THEN Undef ELSE originalDoc_,
                                            updatedData, changeType, user), createFails)
                EXCEPT !.nexts = IF changeType = "update" THEN 1 ELSE 2]
       ELSE Outcome(<<>>, 0, 0, 1))))

\* preSaveHook; doc is doc.toObject().
preSaveHook(self, collection_, doc, isNew, createFails) ==
    Bind(findOne(collection_, Obj("_id" :> Prop(doc, "_id")), trackedPathsOf(self)),
         LAMBDA originalDoc_ :
    LET user == extractUser(doc, Undef, self.userField)
        modelId == getValueByPath(doc, self.modelKeyId)
        changeType == IF isSoftDeleteOf(self, originalDoc_, doc) THEN "delete" ELSE "update"
    IN \* `return next()` for a document that is no longer stored, and the
       \* finally block calls next again.
       IF ~isNew /\ ~Truthy(originalDoc_) THEN Outcome(<<>>, 0, 0, 2)
       ELSE [saveLogHistory(self, LogParams(modelId, IF isNew THEN Undef ELSE originalDoc_, doc,
                                            IF isNew THEN "create" ELSE changeType, user),
                            createFails) EXCEPT !.nexts = 1])

Min(a, b) == IF a <= b THEN a ELSE b

RECURSIVE batchesOf(_, _)
\* The batches batchLogHistory hands to processFn: batchSize documents each,
\* the last one shorter.
batchesOf(docs, batchSize) ==
    IF Len(docs) = 0 THEN <<>>
    ELSE <<SubSeq(docs, 1, Min(Len(docs), batchSize))>>
            \o batchesOf(SubSeq(docs, Min(Len(docs), batchSize) + 1, Len(docs)), batchSize)

\* The loop counting every document as processed, whatever the limit.
processedOfEveryDocument(count, maxBatchLog) == count

\* processed after the loop over count documents: a document is processed
\* while processed < maxBatchLog and skipped afterwards.
processedOf(count, maxBatchLog) == Min(count, maxBatchLog)

RECURSIVE processBatches(_, _, _, _, _)
processBatches(self, batches, i, ParamsOf(_), failing) ==
    IF i > Len(batches) THEN Outcome(<<>>, 0, 0, 0)
    ELSE Bind(saveLogHistoryBatch(self,
                    [k \in 1..Len(batches[i]) |-> ParamsOf(batches[i][k])], i \in failing),
              LAMBDA here :
         Bind(processBatches(self, batches, i + 1, ParamsOf, failing), LAMBDA rest :
            Outcome(here.written \o rest.written, here.errors + rest.errors, 0, 0)))

\* batchLogHistory(docs, processFn, operationName) for a processFn that maps
\* every document of a batch to the parameters of one entry and hands them
\* to saveLogHistoryBatch; failing holds the batches whose bulkWrite rejects.
batchLogHistory(self, given, ParamsOf(_), failing) == Bind(given, LAMBDA docs :
    LET processed == processedOf(Len(docs), self.maxBatchLog)
        skipped == Len(docs) - processed
    IN Bind(processBatches(self, batchesOf(SubSeq(docs, 1, processed), self.batchSize), 1,
                           ParamsOf, failing), LAMBDA done :
            Outcome(done.written, done.errors, IF skipped > 0 THEN 1 ELSE 0, 1)))

\* preInsertManyHook; every document carries its _id.
preInsertManyHook(self, docs, failing) ==
    LET ParamsOf(doc) ==
            LogParams(getValueByPath(doc, self.modelKeyId), Undef, doc, "create",
                      extractUser(doc, Undef, self.userField))
    IN batchLogHistory(self, docs, ParamsOf, failing)

\* preDeleteHook, registered for deleteOne, deleteMany, findOneAndDelete and
\* the other delete operations.
preDeleteHook(self, collection_, filter, options, failing) ==
    LET context == Coalesce(Prop(options, "context"), EmptyObj)
        ParamsOf(doc) ==
            LogParams(getValueByPath(doc, self.modelKeyId), doc, Undef, "delete",
                      extractUser(doc, context, self.userField))
    IN batchLogHistory(self, find(collection_, filter), ParamsOf, failing)

\* preUpdateManyHook, for an update extractUpdateFields does not throw on.
preUpdateManyHook(self, collection_, filter, update_, options, failing) ==
    LET context == Coalesce(Prop(options, "context"), EmptyObj)
        originalDocs == Bind(find(collection_, filter), LAMBDA found :
                            [i \in 1..Len(found) |-> select(found[i], trackedPathsOf(self))])
        ParamsOf(originalDoc_) ==
            Bind(extractUpdateFields(update_, originalDoc_, self.trackedFields),
                 LAMBDA updateFields :
            Bind(Spread(originalDoc_, updateFields), LAMBDA updatedData :
               LogParams(OrElse(getValueByPath(updatedData, self.modelKeyId),
                                getValueByPath(filter, self.modelKeyId)),
                         originalDoc_, updatedData,
                         IF isSoftDeleteOf(self, originalDoc_, updatedData)
                         THEN "delete" ELSE "update",
                         extractUser(updatedData, context, self.userField))))
    IN batchLogHistory(self, originalDocs, ParamsOf, failing)

-----------------------------------------------------------------------------
(* plugin: construction, and the document operations of a model the plugin *)
(* is applied to.  A request is [kind, filter, update, options, docs,      *)
(* isNew, failing]; failing holds the writes of log entries that reject    *)
(* (1 for LogHistory.create, the index of the batch for bulkWrite).        *)

DefaultMaxBatchLog == 1000

DefaultBatchSize == 100

\* options.key ?? fallback
OptionOr(options, key, fallback) == IF key \in DOMAIN options THEN options[key] ELSE fallback

\* new ChangeLogPlugin(options), for options that pass validatePluginOptions.
ChangeLogPlugin(options) ==
    [modelName |-> options.modelName,
     modelKeyId |-> OptionOr(options, "modelKeyId", "_id"),
     trackedFields |-> OptionOr(options, "trackedFields", <<>>),
     contextFields |-> OptionOr(options, "contextFields", Arr(<<>>)),
     softDelete |-> OptionOr(options, "softDelete", Null),
     saveWholeDoc |-> OptionOr(options, "saveWholeDoc", FALSE),
     maxBatchLog |-> OptionOr(options, "maxBatchLog", DefaultMaxBatchLog),
     batchSize |-> OptionOr(options, "batchSize", DefaultBatchSize),
     userField |-> OptionOr(options, "userField", "created_by"),
     compressDocs |-> OptionOr(options, "compressDocs", FALSE),
     maskedValues |-> extractMaskedValues(OptionOr(options, "trackedFields", <<>>))]

Request(kind, filter, update_, options, docs, isNew, failing) ==
    [kind |-> kind, filter |-> filter, update |-> update_, options |-> options,
     docs |-> docs, isNew |-> isNew, failing |-> failing]

\* MongoDB's application of an update to a stored document: direct keys and
\* $set assign, $unset removes; $setOnInsert does nothing to a stored
\* document.
mongoUpdate(doc, update_) ==
    LET direct == Obj([key \in {k \in ObjKeys(update_) : ~startsWithDollar(k)} |->
                        Val(update_)[key]])
        assigned == Spread(Spread(doc, direct), Operator(update_, "$set"))
    IN Obj([key \in ObjKeys(assigned) \ ObjKeys(Operator(update_, "$unset")) |->
                Val(assigned)[key]])

\* The document an upsert inserts when the filter matches nothing.
mongoUpsert(filter, update_, id) ==
    Spread(Spread(Spread(Obj("_id" :> id), filter), Operator(update_, "$setOnInsert")),
           mongoUpdate(EmptyObj, update_))

FirstMatch(collection_, filter) ==
    CHOOSE i \in 1..Len(collection_) :
        /\ matches(collection_[i], filter)
        /\ \A j \in 1..(i - 1) : ~matches(collection_[j], filter)

NextId(collection_) == Num(Len(collection_) + 1)

\* The collection after the document operation the hook precedes.
mongoApply(collection_, req) ==
    LET hit == \E i \in 1..Len(collection_) : matches(collection_[i], req.filter)
    IN CASE req.kind = "updateOne" ->
                IF hit THEN [collection_ EXCEPT ![FirstMatch(collection_, req.filter)] =
                                mongoUpdate(@, req.update)]
                ELSE IF Truthy(Prop(req.options, "upsert"))
                THEN Append(collection_, mongoUpsert(req.filter, req.update, NextId(collection_)))
                ELSE collection_
         [] req.kind = "replaceOne" ->
                IF hit THEN [collection_ EXCEPT ![FirstMatch(collection_, req.filter)] =
                                Spread(req.update, Obj("_id" :> Prop(@, "_id")))]
                ELSE collection_
         [] req.kind = "updateMany" ->
                [i \in 1..Len(collection_) |->
                    IF matches(collection_[i], req.filter)
                    THEN mongoUpdate(collection_[i], req.update) ELSE collection_[i]]
         [] req.kind = "save" ->
                IF req.isNew THEN Append(collection_, req.docs[1])
                ELSE [i \in 1..Len(collection_) |->
                        IF Prop(collection_[i], "_id") = Prop(req.docs[1], "_id")
                        THEN req.docs[1] ELSE collection_[i]]
         [] req.kind = "insertMany" -> collection_ \o req.docs
         [] req.kind = "deleteOne" ->
                IF hit THEN [i \in 1..(Len(collection_) - 1) |->
                                IF i < FirstMatch(collection_, req.filter)
                                THEN collection_[i] ELSE collection_[i + 1]]
                ELSE collection_
         [] req.kind = "deleteMany" ->
                SelectSeq(collection_, LAMBDA doc : ~matches(doc, req.filter))

-----------------------------------------------------------------------------
(* The plugin applied to a model: one document operation, issued on a      *)
(* collection of stored documents, and the same operation issued again.    *)

MaxDocs == 2

MaxRepeats == 2

SoftDeleteStatus == Obj([field |-> Str("status"), value |-> Str("deleted")])

PluginOptions ==
    {[modelName |-> "Order", trackedFields |-> <<Generic("status")>>,
      softDelete |-> SoftDeleteStatus, maxBatchLog |-> 1, batchSize |-> 1],
     [modelName |-> "Order", trackedFields |-> <<Generic("status"), Generic("n")>>,
      contextFields |-> Arr(<<Str("status")>>), saveWholeDoc |-> TRUE,
      maxBatchLog |-> 2, batchSize |-> 2],
     [modelName |-> "Order", trackedFields |-> <<Generic("note")>>,
      softDelete |-> SoftDeleteStatus, maxBatchLog |-> 2, batchSize |-> 1]}

StoredDocs(i) ==
    {Obj([_id |-> Num(i), status |-> Str("active")]),
     Obj([_id |-> Num(i), status |-> Str("deleted")]),
     Obj([_id |-> Num(i), status |-> Str("active"), n |-> NaN]),
     Obj([_id |-> Num(i), note |-> Str("a")])}

Collections ==
    UNION {{c \in [1..n -> UNION {StoredDocs(i) : i \in 1..n}] :
                \A i \in 1..n : c[i] \in StoredDocs(i)} : n \in 0..MaxDocs}

HookFilters == {EmptyObj, Obj("_id" :> Num(1)), Obj("status" :> Str("active"))}

HookUpdates ==
    {EmptyObj,
     Obj("$set" :> Obj("status" :> Str("deleted"))),
     Obj("$set" :> Obj("status" :> Str("active"))),
     Obj("$set" :> Obj("note" :> Str("b"))),
     Obj("$set" :> Obj("n" :> NaN)),
     Obj("$unset" :> Obj("status" :> Str(""))),
     Obj("$setOnInsert" :> Obj("status" :> Str("new"))),
     Obj("status" :> Str("deleted"))}

Replacements ==
    {Obj("status" :> Str("deleted")), Obj([status |-> Str("active"), note |-> Str("b")])}

HookOptions == {EmptyObj, Obj("upsert" :> Bool(TRUE))}

FailingSets == {{}, {1}, 1..MaxDocs}

\* The documents a save may carry: a stored document as loaded or with one
\* field assigned, a new document, or a document that is no longer stored.
Edited(doc) ==
    {doc, PutKey(doc, "status", Str("deleted")), PutKey(doc, "status", Str("active")),
     PutKey(doc, "note", Str("b"))}

NewDocs(i) ==
    {Obj([_id |-> Num(i), status |-> Str("active")]), Obj([_id |-> Num(i), note |-> Str("a")])}

InitPlugin ==
    /\ op = "init"
    /\ \E options \in PluginOptions : plugin = ChangeLogPlugin(options)
    /\ trackedFields = plugin.trackedFields
    /\ originalDoc = Undef
    /\ updatedDoc = Undef
    /\ update = Undef
    /\ fields = EmptyObj
    /\ logs = <<>>
    /\ reverseLogs = <<>>
    /\ collection \in Collections
    /\ previous = collection
    /\ request = Request("none", EmptyObj, EmptyObj, EmptyObj, <<>>, FALSE, {})
    /\ outcome = Outcome(<<>>, 0, 0, 0)
    /\ repeats = 0
    /\ setup = <<>>

\* An operation may be issued on the initial collection, and an update-type
\* operation may be issued again, unchanged, after it was issued.
Issuable(req) ==
    \/ op = "init"
    \/ /\ req = request
       /\ req.kind \in {"updateOne", "replaceOne", "updateMany", "save"}
       /\ ~req.isNew
       /\ repeats < MaxRepeats

\* The hook has run and left result behind; the document operation proceeds.
Issue(req, result) ==
    /\ Issuable(req)
    /\ request' = req
    /\ outcome' = result
    /\ previous' = collection
    /\ collection' = mongoApply(collection, req)
    /\ op' = req.kind
    /\ repeats' = IF op = "init" THEN 0 ELSE repeats + 1
    /\ UNCHANGED <<plugin, setup, trackedFields, originalDoc, updatedDoc, update, fields, logs,
                   reverseLogs>>

SaveDocs ==
    UNION {Edited(collection[i]) \X {FALSE} : i \in 1..Len(collection)}
        \cup (IF Len(collection) < MaxDocs THEN NewDocs(Len(collection) + 1) \X BOOLEAN ELSE {})

\* doc.save()
Save ==
    \E failing \in FailingSets, saved \in SaveDocs :
        Issue(Request("save", EmptyObj, EmptyObj, EmptyObj, <<saved[1]>>, saved[2], failing),
              preSaveHook(plugin, collection, saved[1], saved[2], 1 \in failing))

\* Model.updateOne(filter, update, options) and Model.replaceOne(filter,
\* replacement): the operations preUpdateHook is registered for.
UpdateOne ==
    \E kind \in {"updateOne", "replaceOne"}, filter \in HookFilters,
       update_ \in HookUpdates \cup Replacements, options \in HookOptions,
       failing \in FailingSets :
        /\ kind = "replaceOne" <=> update_ \in Replacements
        /\ kind = "replaceOne" => options = EmptyObj
        /\ Len(collection) < MaxDocs \/ options = EmptyObj
        /\ Issue(Request(kind, filter, update_, options, <<>>, FALSE, failing),
                 preUpdateHook(plugin, collection, filter, update_, options, 1 \in failing))

\* Model.updateMany(filter, update)
UpdateMany ==
    \E filter \in HookFilters, update_ \in HookUpdates, failing \in FailingSets :
        Issue(Request("updateMany", filter, update_, EmptyObj, <<>>, FALSE, failing),
              preUpdateManyHook(plugin, collection, filter, update_, EmptyObj, failing))

\* Model.insertMany(docs)
InsertMany ==
    \E n \in 1..(MaxDocs - Len(collection)), failing \in FailingSets :
        \E docs \in [1..n -> UNION {NewDocs(Len(collection) + k) : k \in 1..n}] :
            /\ \A k \in 1..n : docs[k] \in NewDocs(Len(collection) + k)
            /\ Issue(Request("insertMany", EmptyObj, EmptyObj, EmptyObj, docs, FALSE, failing),
                     preInsertManyHook(plugin, docs, failing))

\* Model.deleteOne(filter) and Model.deleteMany(filter): the operations
\* preDeleteHook is registered for.
Delete ==
    \E kind \in {"deleteOne", "deleteMany"}, filter \in HookFilters, failing \in FailingSets :
        Issue(Request(kind, filter, EmptyObj, EmptyObj, <<>>, FALSE, failing),
              preDeleteHook(plugin, collection, filter, EmptyObj, failing))

NextPlugin ==
    \/ Save
    \/ UpdateOne
    \/ UpdateMany
    \/ InsertMany
    \/ Delete

SpecPlugin == InitPlugin /\ [][NextPlugin]_vars

-----------------------------------------------------------------------------
(* Properties of the hooks.                                                *)

\* The entries of one kind the last hook wrote.
Entries(kind) == SelectSeq(outcome.written, LAMBDA entry : entry.change_type = kind)

\* The position, in the collection as it was, of the stored document a
\* single-document update-type operation is on; 0 when there is none.
Target ==
    LET hits == IF request.kind = "save"
                THEN {i \in 1..Len(previous) :
                        ~request.isNew /\ Prop(previous[i], "_id") = Prop(request.docs[1], "_id")}
                ELSE IF request.kind \in {"updateOne", "replaceOne"}
                THEN {i \in 1..Len(previous) : matches(previous[i], request.filter)}
                ELSE {}
    IN IF hits = {} THEN 0 ELSE CHOOSE i \in hits : \A j \in hits : i <= j

\* The soft-delete field of the document equals the soft-delete value.
MarkedDeleted(doc) ==
    getValueByPath(doc, Val(Prop(plugin.softDelete, "field"))) = Prop(plugin.softDelete, "value")

\* A single-document update-type operation on a stored document has run under
\* a plugin with soft delete, and no write of a log entry has failed.
SoftDeleteCase ==
    /\ op \in {"save", "updateOne", "replaceOne"}
    /\ plugin.softDelete # Null
    /\ Target # 0
    /\ request.failing = {}

BecomesDeleted == ~MarkedDeleted(previous[Target]) /\ MarkedDeleted(collection[Target])

\* C12: with soft delete configured, an update-type operation on an existing
\* document logs exactly one entry of kind delete and none of kind update if
\* and only if the soft-delete field did not equal the value before the
\* operation and equals it after; in every other case no delete entry is
\* logged.
C12_SoftDeleteIffFieldBecomesValue ==
    SoftDeleteCase =>
        /\ BecomesDeleted <=> (Len(Entries("delete")) = 1 /\ Len(Entries("update")) = 0)
        /\ ~BecomesDeleted => Len(Entries("delete")) = 0


\* The positions, in the collection as it was, of the stored documents the
\* last update-type operation was on.
Affected ==
    IF op = "updateMany"
    THEN {i \in 1..Len(previous) : matches(previous[i], request.filter)}
    ELSE IF op \in {"save", "updateOne", "replaceOne"} /\ Target # 0 THEN {Target}
    ELSE {}

\* The stored document has the same value at every tracked path as before.
TrackedUnchanged(i) ==
    \A k \in 1..Len(plugin.trackedFields) :
        getValueByPath(previous[i], plugin.trackedFields[k].value)
            = getValueByPath(collection[i], plugin.trackedFields[k].value)

NotSoftDelete(i) ==
    plugin.softDelete = Null \/ MarkedDeleted(previous[i]) \/ ~MarkedDeleted(collection[i])

EntriesFor(i) ==
    SelectSeq(outcome.written, LAMBDA entry : entry.model_id = Prop(previous[i], "_id"))

\* C13: an update-type operation on an existing document that leaves every
\* tracked field unchanged and is not a soft delete writes no log entry,
\* however many times it is repeated.
C13_UnchangedWritesNoEntry ==
    \A i \in Affected :
        TrackedUnchanged(i) /\ NotSoftDelete(i) => EntriesFor(i) = <<>>


\* The hook registered for the kind of the request, run on a collection.
hookOf(self, collection_, req) ==
    CASE req.kind \in {"updateOne", "replaceOne"} ->
            preUpdateHook(self, collection_, req.filter, req.update, req.options,
                          1 \in req.failing)
      [] req.kind = "updateMany" ->
            preUpdateManyHook(self, collection_, req.filter, req.update, req.options,
                              req.failing)
      [] req.kind = "save" ->
            preSaveHook(self, collection_, req.docs[1], req.isNew, 1 \in req.failing)
      [] req.kind = "insertMany" -> preInsertManyHook(self, req.docs, req.failing)
      [] req.kind \in {"deleteOne", "deleteMany"} ->
            preDeleteHook(self, collection_, req.filter, req.options, req.failing)
      [] OTHER -> Outcome(<<>>, 0, 0, 0)

\* The entries the last hook would have written had no write rejected.
Attempted == hookOf(plugin, previous, [request EXCEPT !.failing = {}]).written

\* A write of the last hook was rejected: entries it built were not written.
WriteFailed == Len(outcome.written) < Len(Attempted)

\* C14: when the write of a log entry fails during a save, update, delete or
\* bulk operation, the failure is reported through logger.error and is not
\* propagated: the hook still calls next and the document operation proceeds.
C14_WriteFailureIsLoggedNotPropagated ==
    WriteFailed =>
        /\ outcome.errors >= 1
        /\ outcome.nexts >= 1
        /\ collection = mongoApply(previous, request)

\* A bulk update in which the write of one batch was rejected and the write
\* of another was not.
C14_Witness ==
    /\ op = "updateMany"
    /\ WriteFailed
    /\ outcome.written # <<>>
    /\ outcome.errors >= 1
    /\ collection # previous


BulkKinds == {"insertMany", "updateMany", "deleteMany"}

\* The documents the last bulk operation affects: the documents inserted, or
\* the positions of the stored documents the filter matches.
AffectedByBulk ==
    IF op = "insertMany" THEN 1..Len(request.docs)
    ELSE {i \in 1..Len(previous) : matches(previous[i], request.filter)}

\* The entries the last hook would have written with no limit on their number
\* and no write rejected.
Loggable ==
    hookOf([plugin EXCEPT !.maxBatchLog = Len(previous) + Len(request.docs)], previous,
           [request EXCEPT !.failing = {}]).written

\* Every affected document has something to log: the hook builds an entry
\* for it (it is inserted or deleted, or the diff finds a tracked change).
EachHasSomethingToLog == Len(Loggable) = Cardinality(AffectedByBulk)

\* C15: a bulk operation over n affected documents, each with something to
\* log, writes exactly min(n, maxBatchLog) entries when no write is rejected;
\* no bulk operation ever writes more than maxBatchLog entries.
C15_BulkWritesMinOfCountAndLimit ==
    op \in BulkKinds =>
        /\ Len(outcome.written) <= plugin.maxBatchLog
        /\ (EachHasSomethingToLog /\ request.failing = {}) =>
                Len(outcome.written) = Min(Cardinality(AffectedByBulk), plugin.maxBatchLog)

\* More documents are affected than the limit allows to log.
C15_Witness ==
    /\ op \in BulkKinds
    /\ EachHasSomethingToLog
    /\ request.failing = {}
    /\ Cardinality(AffectedByBulk) > plugin.maxBatchLog
    /\ Len(outcome.written) = plugin.maxBatchLog
    /\ outcome.warns = 1

-----------------------------------------------------------------------------
(* Plugin setup: schema.plugin(changeLoggingPlugin, options).  The options *)
(* are here what the caller wrote, a JavaScript object whose members may   *)
(* be of any type.                                                         *)

\* validateTrackedField without the forEach over field.trackedFields: the
\* sub-fields are not validated.
validateTrackedFieldThrowsOwnChecksOnly(field) ==
    \/ ~Truthy(field) \/ typeOf(field) # "object"
    \/ ~Truthy(Prop(field, "value")) \/ typeOf(Prop(field, "value")) # "string"
    \/ /\ Prop(field, "arrayType") # Undef
       /\ Prop(field, "arrayType") # Str("simple")
       /\ Prop(field, "arrayType") # Str("custom-key")
    \/ /\ Prop(field, "arrayType") = Str("custom-key")
       /\ ~Truthy(Prop(field, "arrayKey")) \/ typeOf(Prop(field, "arrayKey")) # "string"
    \/ Prop(field, "valueField") # Undef /\ typeOf(Prop(field, "valueField")) # "string"
    \/ /\ Prop(field, "contextFields") # Undef
       /\ ~isArray(Prop(field, "contextFields"))
       /\ \/ typeOf(Prop(field, "contextFields")) # "object"
          \/ Prop(field, "contextFields") = Null
          \/ /\ Prop(Prop(field, "contextFields"), "doc") # Undef
             /\ ~isArray(Prop(Prop(field, "contextFields"), "doc"))
          \/ /\ Prop(Prop(field, "contextFields"), "item") # Undef
             /\ ~isArray(Prop(Prop(field, "contextFields"), "item"))
    \/ /\ Prop(field, "trackedFields") # Undef
       /\ ~isArray(Prop(field, "trackedFields"))

\* validateTrackedField(field, path): TRUE when it throws.
RECURSIVE validateTrackedFieldThrows(_)
validateTrackedFieldThrows(field) ==
    \/ ~Truthy(field) \/ typeOf(field) # "object"
    \/ ~Truthy(Prop(field, "value")) \/ typeOf(Prop(field, "value")) # "string"
    \/ /\ Prop(field, "arrayType") # Undef
       /\ Prop(field, "arrayType") # Str("simple")
       /\ Prop(field, "arrayType") # Str("custom-key")
    \/ /\ Prop(field, "arrayType") = Str("custom-key")
       /\ ~Truthy(Prop(field, "arrayKey")) \/ typeOf(Prop(field, "arrayKey")) # "string"
    \/ Prop(field, "valueField") # Undef /\ typeOf(Prop(field, "valueField")) # "string"
    \/ /\ Prop(field, "contextFields") # Undef
       /\ ~isArray(Prop(field, "contextFields"))
       /\ \/ typeOf(Prop(field, "contextFields")) # "object"
          \/ Prop(field, "contextFields") = Null
          \/ /\ Prop(Prop(field, "contextFields"), "doc") # Undef
             /\ ~isArray(Prop(Prop(field, "contextFields"), "doc"))
          \/ /\ Prop(Prop(field, "contextFields"), "item") # Undef
             /\ ~isArray(Prop(Prop(field, "contextFields"), "item"))
    \/ /\ Prop(field, "trackedFields") # Undef
       /\ \/ ~isArray(Prop(field, "trackedFields"))
          \/ \E idx \in 1..Len(Val(Prop(field, "trackedFields"))) :
                validateTrackedFieldThrows(Val(Prop(field, "trackedFields"))[idx])

\* validatePluginOptions(options): TRUE when it throws.  The options of the
\* setups below give modelName and trackedFields only.
validatePluginOptionsThrows(options) ==
    \/ ~Truthy(Prop(options, "modelName")) \/ typeOf(Prop(options, "modelName")) # "string"
    \/ ~Truthy(Prop(options, "trackedFields")) \/ ~isArray(Prop(options, "trackedFields"))
    \/ \E idx \in 1..Len(Val(Prop(options, "trackedFields"))) :
          validateTrackedFieldThrows(Val(Prop(options, "trackedFields"))[idx])

\* The tracked field the diff reads, for a field that passed validation.
RECURSIVE fieldOf(_)
fieldOf(field) ==
    LET text(key) == IF Prop(field, key) = Undef THEN "" ELSE Val(Prop(field, key))
        children == Prop(field, "trackedFields")
    IN TrackedField(Val(Prop(field, "value")), text("arrayType"), text("arrayKey"),
                    text("valueField"), Prop(field, "contextFields"),
                    IF ~isArray(children) THEN <<>>
                    ELSE [idx \in 1..Len(Val(children)) |-> fieldOf(Val(children)[idx])])

\* The hooks changeLoggingPlugin registers with schema.pre.
RegisteredHooks ==
    {"updateOne", "findOneAndUpdate", "findOneAndReplace", "replaceOne", "update",
     "updateMany", "save", "insertMany", "findOneAndDelete", "findByIdAndDelete",
     "deleteOne", "deleteMany", "remove", "delete"}

Setup(options, thrown, hooks) == [options |-> options, thrown |-> thrown, hooks |-> hooks]

-----------------------------------------------------------------------------
(* The setups explored: one tracked field, plain or wrapped as the child   *)
(* or the grandchild of a keyed list of objects.                           *)

\* How deep the explored field is wrapped.
MaxDepth == 2

ValidFields ==
    {Obj([value |-> Str("status")]),
     Obj([value |-> Str("tags"), arrayType |-> Str("simple")]),
     Obj([value |-> Str("items"), arrayType |-> Str("custom-key"), arrayKey |-> Str("sku")]),
     Obj([value |-> Str("status"), contextFields |-> Arr(<<Str("status")>>)]),
     Obj([value |-> Str("status"), contextFields |-> Obj([doc |-> Arr(<<Str("status")>>)])]),
     Obj([value |-> Str("status"), contextFields |-> EmptyObj]),
     Obj([value |-> Str("status"), trackedFields |-> Arr(<<>>)])}

InvalidFields ==
    {Null, Str("status"), EmptyObj,
     Obj([value |-> Str("")]),
     Obj([value |-> Num(1)]),
     Obj([value |-> Str("items"), arrayType |-> Str("custom-key")]),
     Obj([value |-> Str("items"), arrayType |-> Str("custom-key"), arrayKey |-> Num(1)]),
     Obj([value |-> Str("status"), contextFields |-> Num(123)]),
     Obj([value |-> Str("status"), contextFields |-> Str("status")]),
     Obj([value |-> Str("status"), contextFields |-> Null]),
     Obj([value |-> Str("status"), contextFields |-> Obj([doc |-> Str("status")])]),
     Obj([value |-> Str("status"), contextFields |-> Obj([item |-> Num(1)])]),
     Obj([value |-> Str("status"), trackedFields |-> Str("not-an-array")]),
     Obj([value |-> Str("status"), trackedFields |-> EmptyObj])}

\* field as the only child of a keyed list of objects.
Wrapped(field) ==
    Obj([value |-> Str("items"), arrayType |-> Str("custom-key"), arrayKey |-> Str("sku"),
         trackedFields |-> Arr(<<field>>)])

RECURSIVE WrappedTimes(_, _)
WrappedTimes(field, depth) ==
    IF depth = 0 THEN field ELSE Wrapped(WrappedTimes(field, depth - 1))

SetupOptions ==
    {Obj([modelName |-> Str("Order"),
          trackedFields |-> Arr(<<Obj([value |-> Str("status")]), WrappedTimes(field, depth)>>)]) :
        field \in ValidFields \cup InvalidFields, depth \in 0..MaxDepth}

SetupDoc == Obj([_id |-> Num(1), status |-> Str("active"),
                 items |-> Arr(<<Obj([sku |-> Str("a"), status |-> Str("new")])>>)])

InitSetup ==
    /\ op = "init"
    /\ setup \in {Setup(options, FALSE, {}) : options \in SetupOptions}
    /\ plugin = <<>>
    /\ trackedFields = <<>>
    /\ originalDoc = Undef
    /\ updatedDoc = Undef
    /\ update = Undef
    /\ fields = EmptyObj
    /\ logs = <<>>
    /\ reverseLogs = <<>>
    /\ collection = <<SetupDoc>>
    /\ previous = collection
    /\ request = <<>>
    /\ outcome = <<>>
    /\ repeats = 0

\* changeLoggingPlugin(schema, options): the constructor validates the
\* options before anything else, and the hooks are registered after it.
ChangeLoggingPlugin ==
    /\ op = "init"
    /\ op' = "setup"
    /\ IF validatePluginOptionsThrows(setup.options)
       THEN /\ setup' = Setup(setup.options, TRUE, {})
            /\ UNCHANGED <<plugin, trackedFields>>
       ELSE /\ setup' = Setup(setup.options, FALSE, RegisteredHooks)
            /\ plugin' = ChangeLogPlugin(
                   [modelName |-> Val(Prop(setup.options, "modelName")),
                    trackedFields |->
                        [idx \in 1..Len(Val(Prop(setup.options, "trackedFields"))) |->
                            fieldOf(Val(Prop(setup.options, "trackedFields"))[idx])]])
            /\ trackedFields' = plugin'.trackedFields
    /\ UNCHANGED <<originalDoc, updatedDoc, update, fields, logs, reverseLogs, collection,
                   previous, request, outcome, repeats>>

\* A stored document is edited and saved on a model compiled from the
\* schema: the save hook runs when one is registered.
SaveAfterSetup ==
    /\ op = "setup"
    /\ op' = "save"
    /\ \E doc \in Edited(collection[1]) :
          /\ request' = Request("save", EmptyObj, EmptyObj, EmptyObj, <<doc>>, FALSE, {})
          /\ outcome' = IF "save" \in setup.hooks
                        THEN preSaveHook(plugin, collection, doc, FALSE, FALSE)
                        ELSE <<>>
          /\ previous' = collection
          /\ collection' = <<doc>>
    /\ UNCHANGED <<plugin, setup, trackedFields, originalDoc, updatedDoc, update, fields, logs,
                   reverseLogs, repeats>>

NextSetup == ChangeLoggingPlugin \/ SaveAfterSetup

SpecSetup == InitSetup /\ [][NextSetup]_vars

-----------------------------------------------------------------------------
(* C16.                                                                    *)

\* The nodes of a tracked-field configuration at any depth: the entries of
\* list, and the nodes of every entry's children when they are a list.
RECURSIVE NodesOf(_)
NodesOf(list) ==
    UNION {{list[idx]} \cup
           (IF isArray(Prop(list[idx], "trackedFields"))
            THEN NodesOf(Val(Prop(list[idx], "trackedFields"))) ELSE {}) :
           idx \in 1..Len(list)}

LacksPath(node) == Tag(Prop(node, "value")) # "str" \/ Prop(node, "value") = Str("")

KeyedWithoutKey(node) ==
    Prop(node, "arrayType") = Str("custom-key") /\ Tag(Prop(node, "arrayKey")) # "str"

ListOrAbsent(v) == v = Undef \/ Tag(v) = "arr"

BadContextRule(node) ==
    LET rule == Prop(node, "contextFields")
    IN /\ rule # Undef
       /\ Tag(rule) # "arr"
       /\ ~(Tag(rule) = "obj" /\ ListOrAbsent(Prop(rule, "doc")) /\ ListOrAbsent(Prop(rule, "item")))

BadChildren(node) == ~ListOrAbsent(Prop(node, "trackedFields"))

InvalidNode(node) ==
    LacksPath(node) \/ KeyedWithoutKey(node) \/ BadContextRule(node) \/ BadChildren(node)

InvalidConfiguration ==
    \E node \in NodesOf(Val(Prop(setup.options, "trackedFields"))) : InvalidNode(node)

\* C16: when any node at any depth of the tracked-field configuration lacks
\* a non-empty string path, is a keyed list without a string arrayKey, has a
\* context rule that is neither a list nor an object with optional list
\* members, or has children that are not a list, setup throws: no plugin
\* instance exists, no hook is registered, and no hook or diff runs for an
\* operation issued afterwards.
C16_InvalidConfigurationThrowsAtSetup ==
    (op # "init" /\ InvalidConfiguration) =>
        /\ setup.thrown
        /\ setup.hooks = {}
        /\ plugin = <<>>
        /\ outcome = <<>>

\* The children of a node, when they are a list.
ChildrenOf(node) ==
    IF isArray(Prop(node, "trackedFields")) THEN Range(Val(Prop(node, "trackedFields"))) ELSE {}

\* An invalid node two levels down was given (it is neither an entry of the
\* list nor a child of one), setup threw, and a document has been saved since.
C16_Witness ==
    /\ op = "save"
    /\ setup.thrown
    /\ \E node \in NodesOf(Val(Prop(setup.options, "trackedFields"))) :
          /\ InvalidNode(node)
          /\ \A entry \in Range(Val(Prop(setup.options, "trackedFields"))) :
                node # entry /\ node \notin ChildrenOf(entry)

-----------------------------------------------------------------------------
(* Missing data: documents that are null or undefined, paths whose         *)
(* intermediate is missing or null, and array-typed fields that hold       *)
(* something else than an array, given to the diff and to the query hook.  *)

MissingTracked ==
    <<TrackedField("user.name", "", "", "", Arr(<<Str("user.name")>>), <<>>),
      Simple("tags"),
      TrackedField("items", "custom-key", "sku", "qty",
                   Obj([doc |-> Arr(<<Str("user.name")>>), item |-> Arr(<<Str("sku")>>)]),
                   <<Generic("qty")>>)>>

MissingDocs ==
    {Undef, Null}
    \cup {DocOf([user |-> u, tags |-> t, items |-> Undef]) :
            u \in {Undef, Null, Str("x"), Obj("name" :> Str("x"))},
            t \in {Undef, Null, Num(5), Str("ab"), Bool(TRUE), EmptyObj, Arr(<<Str("a")>>)}}
    \cup {DocOf([user |-> Undef, tags |-> Undef, items |-> i]) :
            i \in {Null, Num(5), Str("ab"), Obj("sku" :> Str("a")),
                   Arr(<<Null, Num(5), Obj("qty" :> Num(1))>>),
                   Arr(<<Obj([sku |-> Str("a"), qty |-> Num(1)])>>),
                   Arr(<<Obj([sku |-> Str("a"), qty |-> Null])>>)}}

MissingUpdates ==
    {UpdateOf({e}) : e \in
        {Entry("$set", "user.name", Str("z")),
         Entry("$unset", "tags", Str("")),
         Entry("$addToSet", "tags", Str("a")),
         Entry("$addToSet", "items", Obj("sku" :> Str("b"))),
         Entry("$push", "tags", Str("a")),
         Entry("$push", "items", Obj("sku" :> Str("b"))),
         Entry("$pull", "tags", Str("a")),
         Entry("$pullAll", "tags", Arr(<<Str("a")>>)),
         Entry("$pop", "tags", Num(1)), Entry("$pop", "tags", Num(-1)),
         Entry("$pop", "tags", Num(0)),
         Entry("$inc", "tags", Num(1))}}
    \cup {Null}

\* Either the two documents of a diff, or the original document and the
\* update of a query hook.
InitMissing ==
    /\ op = "init"
    /\ trackedFields = MissingTracked
    /\ originalDoc \in MissingDocs
    /\ \/ updatedDoc \in MissingDocs /\ update = Undef
       \/ updatedDoc = Undef /\ update \in MissingUpdates
    /\ fields = EmptyObj
    /\ logs = <<>>
    /\ reverseLogs = <<>>
    /\ NoPlugin

NextMissing == GetTrackedChanges \/ GetTrackedChangesReversed \/ PreUpdateHook

SpecMissing == InitMissing /\ [][NextMissing]_vars

-----------------------------------------------------------------------------
(* C17.                                                                    *)

\* The original document holds something else than an array, a string, null
\* or undefined at the path of a tracked array field.
NonArrayInArrayField ==
    \E i \in 1..Len(trackedFields) :
        /\ trackedFields[i].arrayType # ""
        /\ Tag(getValueByPath(originalDoc, trackedFields[i].value)) \in {"num", "bool", "obj"}

\* C17: with a validated configuration, the diff, the context extraction and
\* the patch simulation never raise for missing data: a null or undefined
\* document, a missing or null intermediate on a path, or a non-array value
\* in an array-typed field ends in change records or in none, never in an
\* exception.
C17_NeverRaisesForMissingData ==
    /\ fields # TypeError
    /\ \A i \in 1..Len(logs) : logs[i].change_type \in {"add", "edit", "remove"}
    /\ \A i \in 1..Len(reverseLogs) : reverseLogs[i].change_type \in {"add", "edit", "remove"}

\* What does hold: the patch simulation raises only for $push and $pop
\* on a non-array value, and the diff never does.
C17_RaisesOnlyForPushAndPop ==
    fields = TypeError =>
        /\ op = "hooked"
        /\ NonArrayInArrayField
        /\ ObjKeys(update) \cap {"$push", "$pop"} # {}

-----------------------------------------------------------------------------
(* Context: one tracked field, with and without a context rule, diffed on  *)
(* documents whose context paths hold truthy values, falsy values or none. *)

ContextRules ==
    {Undef, Arr(<<Str("qty")>>), Arr(<<Str("qty"), Str("user.name")>>),
     Obj("doc" :> Arr(<<Str("user.name")>>)), EmptyObj}

ContextDocs ==
    {DocOf([status |-> s, qty |-> q, user |-> u]) :
        s \in {Undef, Str("a"), Str("b")},
        q \in {Undef, Null, Num(0), Num(5), Str(""), Bool(FALSE)},
        u \in {Undef, Obj("name" :> Str("x")), Obj("name" :> Str(""))}}

InitContext ==
    /\ op = "init"
    /\ \E rule \in ContextRules :
          trackedFields = <<TrackedField("status", "", "", "", rule, <<>>)>>
    /\ originalDoc \in ContextDocs
    /\ updatedDoc \in ContextDocs
    /\ update = Undef
    /\ fields = EmptyObj
    /\ logs = <<>>
    /\ reverseLogs = <<>>
    /\ NoPlugin

NextContext == GetTrackedChanges \/ GetTrackedChangesReversed

SpecContext == InitContext /\ [][NextContext]_vars

-----------------------------------------------------------------------------
(* C18.                                                                    *)

\* The document-level context paths of a context rule.
DocPaths(rule) ==
    IF isArray(rule) THEN Range(Val(rule))
    ELSE IF isArray(Prop(rule, "doc")) THEN Range(Val(Prop(rule, "doc")))
    ELSE {}

\* C18: for each document-level context path, the value written into the
\* context is the after-document's value at that path whenever the
\* after-document has a value there, whatever that value is, and the
\* before-document's value only when the after-document has none.
C18_ContextPrefersAfterDocument ==
    \A i \in 1..Len(logs) : \A path \in DocPaths(trackedFields[1].contextFields) :
        ValueAt(Prop(logs[i].context, "doc"), Val(path)) =
            IF ValueAt(updatedDoc, Val(path)) # Undef
            THEN ValueAt(updatedDoc, Val(path))
            ELSE ValueAt(originalDoc, Val(path))

\* What the code does: the after-document's value when it is truthy, the
\* before-document's value otherwise.
C18_ContextPrefersTruthyAfterValue ==
    \A i \in 1..Len(logs) : \A path \in DocPaths(trackedFields[1].contextFields) :
        ValueAt(Prop(logs[i].context, "doc"), Val(path)) =
            IF Truthy(ValueAt(updatedDoc, Val(path)))
            THEN ValueAt(updatedDoc, Val(path))
            ELSE ValueAt(originalDoc, Val(path))

-----------------------------------------------------------------------------
(* C19.                                                                    *)

\* C19: context extraction returns undefined, not an empty object, when no
\* context rule is configured, and a change record produced without a
\* context rule carries no context key.
C19_NoRuleNoContext ==
    trackedFields[1].contextFields = Undef =>
        /\ extractLogContext(trackedFields[1].contextFields, originalDoc, updatedDoc,
                             Null, Null) = Undef
        /\ \A i \in 1..Len(logs) : logs[i].context = Undef
        /\ \A i \in 1..Len(reverseLogs) : reverseLogs[i].context = Undef

\* A change was recorded for a field without a context rule.
C19_Witness ==
    /\ trackedFields[1].contextFields = Undef
    /\ op = "diff"
    /\ Len(logs) > 0

-----------------------------------------------------------------------------
(* The entry builder called on its own: buildLogEntry(params).             *)

EntryDocs ==
    {Undef, Null, EmptyObj, Obj([_id |-> Num(1), status |-> Str("a")]),
     Obj([_id |-> Num(1), status |-> Str("b")])}

EntryParams ==
    {[model_id |-> Num(1), model_name |-> "Order", change_type |-> kind,
      logs |-> IF kind = "update"
               THEN <<FieldLog("status", Str("a"), Str("b"), "edit", Undef)>> ELSE <<>>,
      created_by |-> Null, original_doc |-> original, updated_doc |-> updated,
      context |-> context, saveWholeDoc |-> whole, compressDocs |-> compress,
      maskedValues |-> extractMaskedValues(<<mask>>)] :
        kind \in {"create", "update", "delete"},
        original \in EntryDocs, updated \in EntryDocs,
        context \in {Undef, Obj("doc" :> Obj("status" :> Str("b")))},
        whole \in BOOLEAN, compress \in BOOLEAN,
        mask \in {Generic("status"), Masked(Generic("status"), Str("***"))}}

InitEntry ==
    /\ op = "init"
    /\ request \in EntryParams
    /\ outcome = <<>>
    /\ trackedFields = <<>>
    /\ originalDoc = Undef
    /\ updatedDoc = Undef
    /\ update = Undef
    /\ fields = EmptyObj
    /\ logs = <<>>
    /\ reverseLogs = <<>>
    /\ plugin = <<>>
    /\ collection = <<>>
    /\ previous = <<>>
    /\ repeats = 0
    /\ setup = <<>>

\* const entry = buildLogEntry(params)
BuildLogEntry ==
    /\ op = "init"
    /\ outcome' = buildLogEntry(request)
    /\ op' = "built"
    /\ UNCHANGED <<trackedFields, originalDoc, updatedDoc, update, fields, logs, reverseLogs,
                   plugin, collection, previous, request, repeats, setup>>

NextEntry == BuildLogEntry

SpecEntry == InitEntry /\ [][NextEntry]_vars

-----------------------------------------------------------------------------
(* C20.                                                                    *)

\* C20: when whole-document capture is disabled, the entry the builder
\* returns has neither an original_doc nor an updated_doc key (the keys are
\* absent, not null), whatever documents were passed in.
C20_NoSnapshotKeysWithoutWholeDoc ==
    (op = "built" /\ ~request.saveWholeDoc) =>
        {"original_doc", "updated_doc"} \cap DOMAIN outcome = {}

\* An entry was built from two documents with whole-document capture
\* disabled.
C20_Witness ==
    /\ op = "built"
    /\ ~request.saveWholeDoc
    /\ Tag(request.original_doc) = "obj"
    /\ Tag(request.updated_doc) = "obj"
    /\ request.original_doc # request.updated_doc

-----------------------------------------------------------------------------
(* Pruning: pruneLogHistory on the collection of log entries.  A log entry *)
(* is here [_id, model_id, created_at], created_at in milliseconds; the    *)
(* options are [before, keepLast, modelId], Undef for one not given.       *)

\* TIME_UNITS[unit]
TimeUnit(unit) ==
    CASE unit = "s" -> 1000
      [] unit = "m" -> 60 * 1000
      [] unit = "h" -> 60 * 60 * 1000
      [] unit = "d" -> 24 * 60 * 60 * 1000
      [] unit = "w" -> 7 * 24 * 60 * 60 * 1000
      [] unit = "M" -> 30 * 24 * 60 * 60 * 1000
      [] unit = "y" -> 365 * 24 * 60 * 60 * 1000

\* str.trim(), for strings padded with spaces.
RECURSIVE trim(_)
trim(s) ==
    IF Len(s) >= 1 /\ SubSeq(s, 1, 1) = " " THEN trim(SubSeq(s, 2, Len(s)))
    ELSE IF Len(s) >= 1 /\ SubSeq(s, Len(s), Len(s)) = " " THEN trim(SubSeq(s, 1, Len(s) - 1))
    ELSE s

\* str.trim().match(/^(\d+)([smhdwMy])$/)
matchesDuration(s) ==
    /\ Len(s) >= 2
    /\ AllDigits(SubSeq(s, 1, Len(s) - 1))
    /\ SubSeq(s, Len(s), Len(s)) \in {"s", "m", "h", "d", "w", "M", "y"}

\* parseHumanTime(str), called when Date.now() is now: a Date, or null.
parseHumanTime(str, now) ==
    IF Tag(str) = "date" THEN str
    ELSE IF Tag(str) = "num" THEN Date(Val(str))
    ELSE IF Tag(str) # "str" THEN Null
    ELSE IF ~matchesDuration(trim(Val(str))) THEN Null
    ELSE Date(now - DigitsVal(SubSeq(trim(Val(str)), 1, Len(trim(Val(str))) - 1), 0)
                    * TimeUnit(SubSeq(trim(Val(str)), Len(trim(Val(str))), Len(trim(Val(str))))))

PruneOptions(before, keepLast, modelId) ==
    [before |-> before, keepLast |-> keepLast, modelId |-> modelId]

\* The query pruneLogHistory builds: [created_before, model_id], Null for a
\* condition that is not part of it.
pruneQuery(options, now) ==
    [created_before |->
        IF Truthy(options.before) THEN parseHumanTime(options.before, now) ELSE Null,
     model_id |-> IF Truthy(options.modelId) THEN options.modelId ELSE Null]

\* LogHistory.find(query): the entries of the store that match.
findLogs(store, query) ==
    {e \in store :
        /\ query.created_before # Null => e.created_at < Val(query.created_before)
        /\ query.model_id # Null => Num(e.model_id) = query.model_id}

\* .sort({ created_at: -1 }).skip(keepLast): the matching entries but the
\* keepLast most recent ones (no two entries of the explored stores were
\* created in the same millisecond).
skipMostRecent(matching, keepLast) ==
    {e \in matching : Cardinality({x \in matching : x.created_at > e.created_at}) >= keepLast}

\* The entries pruneLogHistory(options) deletes from store.
pruneLogHistory(store, options, now) ==
    LET query == pruneQuery(options, now)
        ids == IF Truthy(options.modelId) THEN {options.modelId}
               ELSE {Num(e.model_id) : e \in findLogs(store, query)}
    IN IF Truthy(options.keepLast)
       THEN UNION {skipMostRecent(findLogs(store, [query EXCEPT !.model_id = id]),
                                  Val(options.keepLast)) : id \in ids}
       ELSE findLogs(store, query)

-----------------------------------------------------------------------------
(* The stores and options explored.                                        *)

\* Date.now() at the call.
Now == 100000

\* The creation times of the entries, oldest first.
LogTimes == <<10000, 40000, 70000, 95000>>

\* Every entry belongs to document 1 or 2, or was never written (0).
LogStores ==
    {{[_id |-> i, model_id |-> owner[i], created_at |-> LogTimes[i]] :
        i \in {k \in 1..Len(LogTimes) : owner[k] # 0}} :
     owner \in [1..Len(LogTimes) -> 0..MaxDocs]}

BeforeValues ==
    {Undef, Date(50000), Num(50000), Num(0), Str("30s"), Str("1m"), Str(" 5s "), Str("0s"),
     Str("yesterday"), Str(""), Str("-5s"), Str("2x"), Str("1.5h"), Str(toISOString(50000))}

InitPrune ==
    /\ op = "init"
    /\ collection \in LogStores
    /\ previous = collection
    /\ request \in {PruneOptions(before, keepLast, modelId) :
                        before \in BeforeValues,
                        keepLast \in {Undef, Num(0), Num(1), Num(2)},
                        modelId \in {Undef, Num(1), Num(2)}}
    /\ outcome = <<>>
    /\ trackedFields = <<>>
    /\ originalDoc = Undef
    /\ updatedDoc = Undef
    /\ update = Undef
    /\ fields = EmptyObj
    /\ logs = <<>>
    /\ reverseLogs = <<>>
    /\ plugin = <<>>
    /\ repeats = 0
    /\ setup = <<>>

\* const deleted = await pruneLogHistory(options)
PruneLogHistory ==
    /\ op = "init"
    /\ op' = "pruned"
    /\ previous' = collection
    /\ collection' = collection \ pruneLogHistory(collection, request, Now)
    /\ outcome' = Cardinality(collection) - Cardinality(collection')
    /\ UNCHANGED <<trackedFields, originalDoc, updatedDoc, update, fields, logs, reverseLogs,
                   plugin, request, repeats, setup>>

NextPrune == PruneLogHistory

SpecPrune == InitPrune /\ [][NextPrune]_vars

-----------------------------------------------------------------------------
(* C21.                                                                    *)

\* The documents a call covers: the one it names, or every document.
Covered(id) == request.modelId = Undef \/ request.modelId = Num(id)

EntriesOf(store, id) == {e \in store : e.model_id = id}

\* The n most recent entries of a set (all of them when it has fewer).
MostRecent(entries, n) ==
    {e \in entries : Cardinality({x \in entries : x.created_at > e.created_at}) < n}

\* C21: after pruneLogHistory is called with keepLast = N, every document
\* the call covers retains its N most recent log entries by creation time
\* (all of them if it has fewer than N), and no older entry of it remains.
C21_KeepLastRetainsExactlyTheMostRecent ==
    (op = "pruned" /\ Tag(request.keepLast) = "num") =>
        \A id \in 1..MaxDocs : Covered(id) =>
            EntriesOf(collection, id) = MostRecent(EntriesOf(previous, id), Val(request.keepLast))

-----------------------------------------------------------------------------
(* C30.                                                                    *)

\* The time a before value denotes: the Date itself, the Date of a
\* timestamp, now minus a duration; null for a string that is no duration.
Denoted(before) ==
    CASE Tag(before) = "date" -> before
      [] Tag(before) = "num" -> Date(Val(before))
      [] Tag(before) = "str" /\ matchesDuration(trim(Val(before))) ->
            Date(Now - DigitsVal(SubSeq(trim(Val(before)), 1, Len(trim(Val(before))) - 1), 0)
                         * TimeUnit(SubSeq(trim(Val(before)), Len(trim(Val(before))),
                                           Len(trim(Val(before))))))
      [] OTHER -> Null

\* C30: pruneLogHistory never deletes an entry that fails a criterion the
\* caller supplied: whenever a before value is supplied, no entry is deleted
\* unless it is older than the time the value denotes, for every before
\* value, strings that are not valid durations included.
C30_NothingDeletedUnlessOlderThanBefore ==
    (op = "pruned" /\ request.before # Undef) =>
        \A e \in previous \ collection :
            Denoted(request.before) # Null /\ e.created_at < Val(Denoted(request.before))

-----------------------------------------------------------------------------
(* The actor: operations on one stored document that may hold user fields, *)
(* issued with and without a query context.                                *)

UserPluginOptions ==
    {[modelName |-> "Order", trackedFields |-> <<Generic("status")>>, userField |-> "user"],
     [modelName |-> "Order", trackedFields |-> <<Generic("status")>>,
      userField |-> "user.name"],
     [modelName |-> "Order", trackedFields |-> <<Generic("status")>>]}

UserDocs ==
    {DocOf([_id |-> Num(1), status |-> Str("active"), user |-> u, created_by |-> c,
            updated_by |-> b, userId |-> i]) :
        u \in {Undef, Null, Str("DocUser"), Num(0), Obj("name" :> Str("Alice"))},
        c \in {Undef, Str("Creator")},
        b \in {Undef, Null, Str("Updater")},
        i \in {Undef, Str("U7")}}

UserContexts ==
    {Undef, Obj("user" :> Str("ContextUser")), Obj("user" :> Null),
     Obj("user" :> Obj("name" :> Str("Bob")))}

UserQueryOptions ==
    {IF context = Undef THEN EmptyObj ELSE Obj("context" :> context) : context \in UserContexts}

InitUser ==
    /\ op = "init"
    /\ \E options \in UserPluginOptions : plugin = ChangeLogPlugin(options)
    /\ trackedFields = plugin.trackedFields
    /\ originalDoc = Undef
    /\ updatedDoc = Undef
    /\ update = Undef
    /\ fields = EmptyObj
    /\ logs = <<>>
    /\ reverseLogs = <<>>
    /\ \E doc \in UserDocs : collection = <<doc>>
    /\ previous = collection
    /\ request = Request("none", EmptyObj, EmptyObj, EmptyObj, <<>>, FALSE, {})
    /\ outcome = Outcome(<<>>, 0, 0, 0)
    /\ repeats = 0
    /\ setup = <<>>

\* doc.status = 'done'; doc.save()
UserSave ==
    /\ collection # <<>>
    /\ Issue(Request("save", EmptyObj, EmptyObj, EmptyObj,
                     <<PutKey(collection[1], "status", Str("done"))>>, FALSE, {}),
             preSaveHook(plugin, collection, PutKey(collection[1], "status", Str("done")),
                         FALSE, FALSE))

\* Model.updateOne({_id}, {$set: {status: 'done'}}, {context})
UserUpdateOne ==
    \E options \in UserQueryOptions :
        Issue(Request("updateOne", Obj("_id" :> Num(1)),
                      Obj("$set" :> Obj("status" :> Str("done"))), options, <<>>, FALSE, {}),
              preUpdateHook(plugin, collection, Obj("_id" :> Num(1)),
                            Obj("$set" :> Obj("status" :> Str("done"))), options, FALSE))

\* Model.updateMany({}, {$set: {status: 'done'}}, {context})
UserUpdateMany ==
    \E options \in UserQueryOptions :
        Issue(Request("updateMany", EmptyObj, Obj("$set" :> Obj("status" :> Str("done"))),
                      options, <<>>, FALSE, {}),
              preUpdateManyHook(plugin, collection, EmptyObj,
                                Obj("$set" :> Obj("status" :> Str("done"))), options, {}))

\* Model.deleteOne({_id}, {context})
UserDeleteOne ==
    \E options \in UserQueryOptions :
        Issue(Request("deleteOne", Obj("_id" :> Num(1)), EmptyObj, options, <<>>, FALSE, {}),
              preDeleteHook(plugin, collection, Obj("_id" :> Num(1)), options, {}))

NextUser == UserSave \/ UserUpdateOne \/ UserUpdateMany \/ UserDeleteOne

SpecUser == InitUser /\ [][NextUser]_vars

-----------------------------------------------------------------------------
(* C22.                                                                    *)

\* The first value of a sequence that is neither null nor undefined; null
\* when there is none.
FirstValue(values) ==
    IF \E i \in 1..Len(values) : values[i] \notin {Null, Undef}
    THEN values[CHOOSE i \in 1..Len(values) :
                    /\ values[i] \notin {Null, Undef}
                    /\ \A j \in 1..(i - 1) : values[j] \in {Null, Undef}]
    ELSE Null

\* The places the actor is looked for, in order: the query's context (query
\* hooks only), then the document.
ActorOf(context, doc, userField) ==
    FirstValue(<<ValueAt(context, userField), ValueAt(doc, userField),
                 ValueAt(doc, "created_by"), ValueAt(doc, "updated_by"),
                 ValueAt(doc, "modified_by"), ValueAt(doc, "user_id"), ValueAt(doc, "userId")>>)

\* The document of the last operation: the one saved, the one deleted, or
\* the stored one as the update leaves it.
OperatedDoc ==
    CASE request.kind = "save" -> request.docs[1]
      [] request.kind = "deleteOne" -> previous[1]
      [] OTHER -> collection[1]

\* C22: the actor recorded in a log entry is the first value that is neither
\* null nor undefined among the query's context at userField (query hooks
\* only), the document at userField, and the document's created_by,
\* updated_by, modified_by, user_id and userId, in this order; null when
\* none of them has a value.
C22_ActorIsFirstValueFound ==
    \A i \in 1..Len(outcome.written) :
        outcome.written[i].created_by =
            ActorOf(IF request.kind = "save" THEN Undef ELSE Prop(request.options, "context"),
                    OperatedDoc, plugin.userField)

-----------------------------------------------------------------------------
(* C23.                                                                    *)

\* C23: every invocation of a pre-hook (save, single update, updateMany,
\* insertMany, delete) calls next exactly once, whichever path it takes
\* through the hook.
C23_NextCalledExactlyOnce ==
    request.kind # "none" => outcome.nexts = 1

-----------------------------------------------------------------------------
(* A sequence of operations on one stored document; logs holds the entries *)
(* written to the log-history collection so far, in the order written.     *)

MaxChain == 3

ChainValues == {Str("a"), Str("b"), Str(""), Null}

ChainUpdates ==
    {Obj("$set" :> Obj("status" :> v)) : v \in ChainValues}
        \cup {Obj("status" :> v) : v \in ChainValues}
        \cup {Obj("$unset" :> Obj("status" :> Str(""))),
              Obj("$setOnInsert" :> Obj("status" :> Str("b")))}

InitChain ==
    /\ op = "init"
    /\ plugin = ChangeLogPlugin([modelName |-> "Order", trackedFields |-> <<Generic("status")>>])
    /\ trackedFields = plugin.trackedFields
    /\ originalDoc = Undef
    /\ updatedDoc = Undef
    /\ update = Undef
    /\ fields = EmptyObj
    /\ logs = <<>>
    /\ reverseLogs = <<>>
    /\ collection = <<Obj([_id |-> Num(1), status |-> Str("a")])>>
    /\ previous = collection
    /\ request = Request("none", EmptyObj, EmptyObj, EmptyObj, <<>>, FALSE, {})
    /\ outcome = Outcome(<<>>, 0, 0, 0)
    /\ repeats = 0
    /\ setup = <<>>

\* The hook has run, its entries are stored, and the operation proceeds.
Chain(req, result) ==
    /\ repeats < MaxChain
    /\ request' = req
    /\ outcome' = result
    /\ logs' = logs \o result.written
    /\ previous' = collection
    /\ collection' = mongoApply(collection, req)
    /\ op' = req.kind
    /\ repeats' = repeats + 1
    /\ UNCHANGED <<plugin, setup, trackedFields, originalDoc, updatedDoc, update, fields,
                   reverseLogs>>

\* doc.status = value; doc.save()
ChainSave ==
    \E value \in ChainValues :
        Chain(Request("save", EmptyObj, EmptyObj, EmptyObj,
                      <<PutKey(collection[1], "status", value)>>, FALSE, {}),
              preSaveHook(plugin, collection, PutKey(collection[1], "status", value),
                          FALSE, FALSE))

\* Model.updateOne({_id: 1}, update)
ChainUpdateOne ==
    \E update_ \in ChainUpdates :
        Chain(Request("updateOne", Obj("_id" :> Num(1)), update_, EmptyObj, <<>>, FALSE, {}),
              preUpdateHook(plugin, collection, Obj("_id" :> Num(1)), update_, EmptyObj, FALSE))

\* Model.replaceOne({_id: 1}, {status: value})
ChainReplaceOne ==
    \E value \in ChainValues :
        Chain(Request("replaceOne", Obj("_id" :> Num(1)), Obj("status" :> value), EmptyObj,
                      <<>>, FALSE, {}),
              preUpdateHook(plugin, collection, Obj("_id" :> Num(1)), Obj("status" :> value),
                            EmptyObj, FALSE))

NextChain == ChainSave \/ ChainUpdateOne \/ ChainReplaceOne

SpecChain == InitChain /\ [][NextChain]_vars

-----------------------------------------------------------------------------
(* C24.                                                                    *)

RECURSIVE changesOf(_, _)
\* The change records of one field in a sequence of entries, in order.
changesOf(entries, fieldName) ==
    IF entries = <<>> THEN <<>>
    ELSE SelectSeq(Head(entries).logs, LAMBDA change : change.field_name = fieldName)
            \o changesOf(Tail(entries), fieldName)

\* The last operation changed the stored value of the field.
Changed(fieldName) ==
    /\ op # "init"
    /\ ValueAt(previous[1], fieldName) # ValueAt(collection[1], fieldName)

\* Every change of the field is in the change list of an entry the
\* operation wrote.
ChangeRecorded(fieldName) ==
    Changed(fieldName) => changesOf(outcome.written, fieldName) # <<>>

\* Each logged change starts from where the previous logged change ended.
ChangesChained(fieldName) ==
    LET changes == changesOf(logs, fieldName)
    IN \A k \in 1..(Len(changes) - 1) : changes[k + 1].from_value = changes[k].to_value

\* C24: over any sequence of single-document operations on one document
\* whose log writes succeed, every change of a tracked scalar field is
\* recorded in the change list of some entry, and each recorded from value
\* equals the to value of the previous logged change of that field.
C24_ChangesRecordedAndChained ==
    ChangeRecorded("status") /\ ChangesChained("status")

-----------------------------------------------------------------------------
(* Context of a sub-field record inside a keyed array element that carries *)
(* context of its own.                                                     *)

ParentRules ==
    {Undef, Obj("doc" :> Arr(<<Str("user.name")>>)), Obj("item" :> Arr(<<Str("meta.code")>>)),
     Obj([doc |-> Arr(<<Str("user.name")>>), item |-> Arr(<<Str("qty")>>)]),
     Obj([doc |-> Arr(<<Str("status")>>), item |-> Arr(<<Str("sku"), Str("meta.code")>>)])}

ChildRules ==
    {Undef, Arr(<<Str("status")>>), Obj("doc" :> Arr(<<Str("user.id")>>)),
     Obj("item" :> Arr(<<Str("meta.tag")>>)),
     Obj([doc |-> Arr(<<Str("status")>>), item |-> Arr(<<Str("sku")>>)])}

MergeDocs ==
    {DocOf([status |-> Str("a"), user |-> u,
            items |-> Arr(<<DocOf([sku |-> Str("A"), qty |-> q, meta |-> m])>>)]) :
        u \in {Undef, Obj([name |-> Str("x"), id |-> Num(7)])},
        q \in {Num(1), Num(2)},
        m \in {Undef, Obj("code" :> Str("c")), Obj([code |-> Str("c"), tag |-> Str("t")])}}

InitMerge ==
    /\ op = "init"
    /\ \E parentRule \in ParentRules, childRule \in ChildRules :
          trackedFields =
              <<TrackedField("items", "custom-key", "sku", "", parentRule,
                             <<[Generic("qty") EXCEPT !.contextFields = childRule]>>)>>
    /\ originalDoc \in MergeDocs
    /\ updatedDoc \in MergeDocs
    /\ update = Undef
    /\ fields = EmptyObj
    /\ logs = <<>>
    /\ reverseLogs = <<>>
    /\ NoPlugin

NextMerge == GetTrackedChanges \/ GetTrackedChangesReversed

SpecMerge == InitMerge /\ [][NextMerge]_vars

-----------------------------------------------------------------------------
(* C25.                                                                    *)

RECURSIVE DeepMerge(_, _)
\* The recursive merge: objects are merged key by key at every depth, and
\* anywhere else the child's value stands.
DeepMerge(parent, child) ==
    IF Tag(parent) = "obj" /\ Tag(child) = "obj"
    THEN Obj([key \in ObjKeys(parent) \cup ObjKeys(child) |->
                IF key \notin ObjKeys(child) THEN Val(parent)[key]
                ELSE IF key \notin ObjKeys(parent) THEN Val(child)[key]
                ELSE DeepMerge(Val(parent)[key], Val(child)[key])])
    ELSE child

\* The context of the element (the parent) and of its sub-field (the child)
\* for a diff of before against after.
ElementOf(doc) == Val(Prop(doc, "items"))[1]

ParentContext(before, after) ==
    extractLogContext(trackedFields[1].contextFields, before, after,
                      ElementOf(before), ElementOf(after))

ChildContext(before, after) ==
    extractLogContext(trackedFields[1].trackedFields[1].contextFields, before, after,
                      ElementOf(before), ElementOf(after))

MergedContext(records, before, after) ==
    \A i \in 1..Len(records) :
        (/\ records[i].field_name = "items.qty"
         /\ ParentContext(before, after) # Undef
         /\ ChildContext(before, after) # Undef)
            => records[i].context = DeepMerge(ParentContext(before, after),
                                              ChildContext(before, after))

\* C25: when a sub-field record and its parent keyed-array element both
\* carry context, the record's context is the recursive merge of the two:
\* at every depth a parent value is kept unless the child sets the same key,
\* and then the child's value stands.
C25_ContextIsRecursiveMerge ==
    /\ op \in {"diff", "reversed"} => MergedContext(logs, originalDoc, updatedDoc)
    /\ op = "reversed" => MergedContext(reverseLogs, updatedDoc, originalDoc)

-----------------------------------------------------------------------------
(* getValueByPath alone: originalDoc is the record, update the path, and   *)
(* updatedDoc the value returned.                                          *)

PathLeaves == {Num(1), Num(0), Str(""), Null, Bool(FALSE)}

PathRecords ==
    {Undef, Null, EmptyObj}
        \cup {Obj("a" :> v) : v \in PathLeaves \cup {Str("x"), Date(0)}}
        \cup {Obj("a" :> Obj("b" :> v)) : v \in PathLeaves \cup {Obj("c" :> Num(2))}}
        \cup {Obj("a" :> Arr(<<Obj("b" :> v), Num(5)>>)) : v \in PathLeaves}
        \cup {Obj("a.b" :> v) : v \in PathLeaves}
        \cup {Spread(Obj("a" :> Obj("b" :> Num(2))), Obj("a.b" :> v)) : v \in PathLeaves}

Paths == {"a", "b", "a.b", "a.b.c", "a.0", "a.0.b", "a.1", "a.2", "a.x", "a.1.b", "a."}

InitPath ==
    /\ op = "init"
    /\ trackedFields = <<>>
    /\ originalDoc \in PathRecords
    /\ updatedDoc = Undef
    /\ \E path \in Paths : update = Str(path)
    /\ fields = EmptyObj
    /\ logs = <<>>
    /\ reverseLogs = <<>>
    /\ NoPlugin

\* getValueByPath(record, path)
GetValueByPath ==
    /\ op = "init"
    /\ updatedDoc' = getValueByPath(originalDoc, Val(update))
    /\ op' = "get"
    /\ UNCHANGED <<trackedFields, originalDoc, update, fields, logs, reverseLogs>>
    /\ UNCHANGED pluginVars

NextPath == GetValueByPath

SpecPath == InitPath /\ [][NextPath]_vars

-----------------------------------------------------------------------------
(* C26.                                                                    *)

RECURSIVE Walk(_, _, _)
\* The walk from a value along path segments: a segment is a key of an
\* object or a numeric index into an array; a step from anything missing,
\* null or not indexable ends the walk with undefined.
Walk(value, segments, i) ==
    IF i > Len(segments) THEN value
    ELSE IF Tag(value) = "obj" THEN
        IF segments[i] \in DOMAIN Val(value)
        THEN Walk(Val(value)[segments[i]], segments, i + 1) ELSE Undef
    ELSE IF Tag(value) = "arr" THEN
        IF /\ segments[i] # ""
           /\ AllDigits(segments[i])
           /\ DigitsVal(segments[i], 0) < Len(Val(value))
        THEN Walk(Val(value)[DigitsVal(segments[i], 0) + 1], segments, i + 1) ELSE Undef
    ELSE Undef

\* C26: get(record, path) returns exactly the value reached by splitting
\* path on '.' and walking segment by segment from record, through object
\* keys and numeric array indices, and undefined as soon as an intermediate
\* value is missing, null or not indexable.
C26_GetIsTheWalk ==
    op = "get" => updatedDoc = Walk(originalDoc, Split(Val(update)), 1)

-----------------------------------------------------------------------------
(* $push alone: one tracked array field and one pushed operand.            *)

PushTracked ==
    {<<Simple("tags")>>, <<TrackedField("tags", "custom-key", "sku", "", Undef, <<>>)>>}

PushDocs ==
    {Null} \cup
    {DocOf([_id |-> Num(1), tags |-> t]) :
        t \in {Undef, Null, Arr(<<>>), Arr(<<Str("a")>>), Arr(<<Str("a"), Str("b")>>),
               Arr(<<Str("a"), Str("a")>>)}}

PushOperands ==
    {Str("a"), Str("c"), Num(1), Num(0), Str(""), Bool(FALSE), Null,
     Arr(<<Str("a")>>), Obj("sku" :> Str("A")),
     Obj("$each" :> Arr(<<>>)), Obj("$each" :> Arr(<<Str("a"), Str("a")>>)),
     Obj("$each" :> Arr(<<Str("c"), Str("a")>>))}

InitPush ==
    /\ op = "init"
    /\ trackedFields \in PushTracked
    /\ originalDoc \in PushDocs
    /\ \E operand \in PushOperands : update = Obj("$push" :> Obj("tags" :> operand))
    /\ updatedDoc = Undef
    /\ fields = EmptyObj
    /\ logs = <<>>
    /\ reverseLogs = <<>>
    /\ NoPlugin

NextPush == PreUpdateHook

SpecPush == InitPush /\ [][NextPush]_vars

-----------------------------------------------------------------------------
(* C27.                                                                    *)

\* The field's current array; a missing one counts as empty.
CurrentArray(doc, fieldName) ==
    IF isArray(ValueAt(doc, fieldName)) THEN Val(ValueAt(doc, fieldName)) ELSE <<>>

\* What a push operand appends: the elements of an each-wrapped list, or
\* the operand itself.
Pushed(operand) ==
    IF Tag(operand) = "obj" /\ "$each" \in DOMAIN Val(operand)
    THEN Val(Val(operand)["$each"]) ELSE <<operand>>

\* C27: simulating the push of a value (or of an each-wrapped list) on a
\* tracked array field yields the field's current array followed by the
\* value (or by all elements of the list, in order), for every operand
\* value, nothing removed and nothing de-duplicated; a missing current
\* array counts as empty.
C27_PushAppends ==
    op = "hooked" =>
        Prop(fields, "tags") =
            Arr(CurrentArray(originalDoc, "tags") \o Pushed(Val(Val(update)["$push"])["tags"]))

-----------------------------------------------------------------------------
(* C28.                                                                    *)

\* The top-level keyed-list fields without child specs.
Childless == {i \in TopLevel("custom-key") : trackedFields[i].trackedFields = <<>>}

-----------------------------------------------------------------------------
(* batchLogHistory's loop alone: logs holds the batches handed to          *)
(* processFn, in the order issued.                                         *)

RECURSIVE batchLoop(_, _, _, _, _, _, _)
\* for (const doc of docs), from docs[i] on: batch is the batch being
\* filled, issued the batches handed to processFn so far; after the loop a
\* batch that is not empty is handed over too.
batchLoop(docs, i, processed, batch, issued, maxBatchLog, batchSize) ==
    IF i > Len(docs) THEN (IF Len(batch) > 0 THEN Append(issued, batch) ELSE issued)
    ELSE IF processed >= maxBatchLog
    THEN batchLoop(docs, i + 1, processed, batch, issued, maxBatchLog, batchSize)
    ELSE IF Len(batch) + 1 >= batchSize
    THEN batchLoop(docs, i + 1, processed + 1, <<>>, Append(issued, Append(batch, docs[i])),
                   maxBatchLog, batchSize)
    ELSE batchLoop(docs, i + 1, processed + 1, Append(batch, docs[i]), issued,
                   maxBatchLog, batchSize)

RECURSIVE batchLoopWithoutLast(_, _, _, _, _, _, _)
\* The loop without the hand-over of the last, shorter batch.
batchLoopWithoutLast(docs, i, processed, batch, issued, maxBatchLog, batchSize) ==
    IF i > Len(docs) THEN issued
    ELSE IF processed >= maxBatchLog
    THEN batchLoopWithoutLast(docs, i + 1, processed, batch, issued, maxBatchLog, batchSize)
    ELSE IF Len(batch) + 1 >= batchSize
    THEN batchLoopWithoutLast(docs, i + 1, processed + 1, <<>>,
                              Append(issued, Append(batch, docs[i])), maxBatchLog, batchSize)
    ELSE batchLoopWithoutLast(docs, i + 1, processed + 1, Append(batch, docs[i]), issued,
                              maxBatchLog, batchSize)

issuedBatchesWithoutLast(docs, maxBatchLog, batchSize) ==
    batchLoopWithoutLast(docs, 1, 0, <<>>, <<>>, maxBatchLog, batchSize)

\* The batches one call of batchLogHistory hands to processFn.
issuedBatches(docs, maxBatchLog, batchSize) ==
    batchLoop(docs, 1, 0, <<>>, <<>>, maxBatchLog, batchSize)

MaxAffected == 5

MaxLimit == 4

InitBatch ==
    /\ op = "init"
    /\ \E maxBatchLog \in 1..MaxLimit, batchSize \in 1..MaxLimit :
          plugin = ChangeLogPlugin([modelName |-> "Order",
                                    trackedFields |-> <<Generic("status")>>,
                                    maxBatchLog |-> maxBatchLog, batchSize |-> batchSize])
    /\ trackedFields = plugin.trackedFields
    /\ originalDoc = Undef
    /\ updatedDoc = Undef
    /\ update = Undef
    /\ fields = EmptyObj
    /\ logs = <<>>
    /\ reverseLogs = <<>>
    /\ collection = <<>>
    /\ previous = <<>>
    /\ \E n \in 0..MaxAffected :
          request = Request("insertMany", EmptyObj, EmptyObj, EmptyObj,
                            [i \in 1..n |-> Obj([_id |-> Num(i), status |-> Str("active")])],
                            FALSE, {})
    /\ outcome = Outcome(<<>>, 0, 0, 0)
    /\ repeats = 0
    /\ setup = <<>>

\* batchLogHistory(docs, processFn): the batches processFn receives.
BatchLogHistory ==
    /\ op = "init"
    /\ logs' = issuedBatches(request.docs, plugin.maxBatchLog, plugin.batchSize)
    /\ op' = "batched"
    /\ UNCHANGED <<trackedFields, originalDoc, updatedDoc, update, fields, reverseLogs>>
    /\ UNCHANGED pluginVars

NextBatch == BatchLogHistory

SpecBatch == InitBatch /\ [][NextBatch]_vars

-----------------------------------------------------------------------------
(* C29.                                                                    *)

RECURSIVE Concatenated(_)
Concatenated(batches) ==
    IF batches = <<>> THEN <<>> ELSE Head(batches) \o Concatenated(Tail(batches))

\* C29: during one bulk operation the batches handed to the batch processor
\* are each non-empty and of at most batchSize documents, and concatenated
\* in the order issued they are exactly the first min(n, maxBatchLog)
\* affected documents in their original order, each document in exactly one
\* batch.
C29_BatchesPartitionTheLoggedDocuments ==
    op = "batched" =>
        LET logged == SubSeq(request.docs, 1, Min(Len(request.docs), plugin.maxBatchLog))
        IN /\ \A b \in 1..Len(logs) : Len(logs[b]) \in 1..plugin.batchSize
           /\ Concatenated(logs) = logged
           /\ \A k \in 1..Len(logged) :
                Cardinality({b \in 1..Len(logs) :
                                \E j \in 1..Len(logs[b]) : logs[b][j] = logged[k]}) = 1

\* More documents than the limit, several batches, the last one shorter.
C29_Witness ==
    /\ op = "batched"
    /\ Len(request.docs) > plugin.maxBatchLog
    /\ Len(logs) >= 2
    /\ Len(logs[Len(logs)]) < plugin.batchSize

=============================================================================
